---- MODULE Spec2Model ----
(***************************************************************************)
(* The candidate-evaluation pipeline of jipcy: SelectTopIssues in its      *)
(* semaphore variant (src/unnamed/part_005) and its errgroup variant       *)
(* (src/domain/service/select_top_issue.go), the notification worker, and  *)
(* the aggregation step (filter empty slots, sort.Slice by similarity,     *)
(* keep five); Slack.SearchThreads (src/unnamed/part_000); the CLI's       *)
(* selectTopIssues (src/main.go); formatIssue; and handleMention           *)
(* (src/handler/handler.go).                                               *)
(*                                                                         *)
(* Similarities are in hundredths: 0.3 is 30.  Issue i has ID i; the empty *)
(* ID "" of model.Result{} is 0.                                           *)
(***************************************************************************)
EXTENDS Integers, Sequences, FiniteSets, TLC

\* ---------------------------------------------------------------- bounds
MaxIssues == 2      \* candidates in a pipeline run
MaxOver == 1         \* candidates beyond the number of permits, saturated run
MaxShortLen == 6    \* length of the short result slices aggregation is applied to
MaxLongExtra == 0   \* long result slices have up to maxInsertion + 1 + MaxLongExtra slots
MaxMatches == 3     \* matches a keyword search returns
MaxCliIssues == 4   \* issues the CLI's selectTopIssues is called with
MaxTextLen == 1     \* characters of a free text of an issue
MaxNodes == 1       \* text nodes of a description or of a comment body
MaxComments == 1    \* comments of an issue
MaxSelected == 2    \* issues SelectTopIssues returns to handleMention
MaxRepeatMatches == 2   \* matches of a keyword search that is made twice
MaxTime == 12       \* tenths of a second the notification worker is watched for
MaxMsgs == 3        \* notifications sent to the watched notification worker
MaxPieces == 4      \* pieces a text with mentions is made of
MaxWgIssues == 3    \* issues the wait-group variant is called with
MaxFails == 1       \* failing attempts before an issue of the wait-group variant is scored

\* ------------------------------------------------------ program constants
maxConcurrency == 5 \* const maxConcurrency = 5
TwoAttempts == 1 + 1 \* variant of RetryCount
RetryCount == 3     \* retry.Retry(3, ...)
Threshold == 30     \* similarity < 0.3
TopK == 5           \* convIssues[:5]
NotifyBuf == 100    \* make(chan notificationMessage, 100)
maxInsertion == 12  \* sort: ranges of at most 12 elements are insertion-sorted
CliThreshold == 50  \* CLI: similarity.Similarity < 0.5
CliTopK == 3        \* CLI: convIssues[:3]
HdlRetries == 3     \* handleMention: retry.Retry(3, ...)

\* similarities the scoring call may return: below, at and above the threshold
Scores == {20, 30, 90}

VARIABLES
    variant,      \* "sem": part_005, "errgroup": select_top_issue.go
    nIssues,      \* len(issues)
    remote,       \* what a call of the retried closure can come to in this run
    slow,         \* the tasks whose remote calls answer after the others finished
    mainPc,       \* position of SelectTopIssues
    spawned,      \* number of g.Go calls made by the loop
    pc,           \* position of each task
    attemptsLeft, \* n of retry.Retry, per task
    result,       \* the task-local var result
    retryErr,     \* the task-local retryErr: "nil" or "error"
    scored,       \* per task: the similarity its last scoring call returned
    scoreCalls,   \* per running task: calls of s.openAI.CalculateSimilarity so far
    searchFailed, \* per running task: attempts whose s.slack.SearchThreads failed
    sem,          \* permits held (cur of the weighted semaphore)
    groupErr,     \* g.err is set (and gctx cancelled)
    results,      \* the shared slice results
    writes,       \* per slot: the tasks that stored into it, in order
    notifyCh,     \* buffered channel contents
    chClosed,     \* close(notifyCh) was called
    closes,       \* number of close(notifyCh) calls so far
    workerPc,     \* position of notificationWorker
    workerMsg,    \* the message the worker received and has not posted yet
    sent,         \* number of sends on notifyCh so far
    posted,       \* per issue: the messages the worker tried to post, in order
    postCount,    \* number of post attempts of the worker so far
    emitted,      \* per task: the notifications it emitted, in order
    postFailed,   \* some PostMessage call returned an error
    ret,          \* what SelectTopIssues returned
    aggIn,        \* aggregation alone: the fixed result slice
    aggOut,       \* aggregation alone: outputs computed so far
    aggPc,        \* aggregation alone: position
    slackToken,   \* SearchThreads: SLACK_USER_TOKEN is set (slack.New got a token)
    matches,      \* SearchThreads: searchResult.Matches, with what Slack holds for each
    searchPc,     \* SearchThreads: position
    matchIdx,     \* SearchThreads: index of the match the loop is at
    visitedThreads,    \* SearchThreads: the keys of the map visitedThreads
    allThreadMessages, \* SearchThreads: the messages collected so far
    calls,        \* SearchThreads: the remote calls made and how each ended
    searchRet,    \* SearchThreads: what it returned
    searchRound,  \* SearchThreads: 1 in the first call, 2 in the call after it
    firstRet,     \* SearchThreads: what the first call returned
    cliToken,     \* CLI: SLACK_API_TOKEN is set
    cliScores,    \* CLI: per issue, the similarity the model answers with
    cliPc,        \* CLI selectTopIssues: position
    cliIdx,       \* CLI selectTopIssues: index of the issue the loop is at
    cliConvIssues,     \* CLI selectTopIssues: the slice convIssues
    cliThreads,   \* CLI: what searchThreads returned last
    cliCalls,     \* CLI: the remote calls made and how each ended
    cliRet,       \* CLI: what selectTopIssues returned
    fmtIssue,     \* formatIssue: the issue it is called with
    fmtPc,        \* formatIssue: position
    fmtOut,       \* formatIssue: the text returned
    hdlPc,        \* handleMention: position
    hdlEmpty,     \* handleMention: the mention carries no text
    hdlChannelSet,     \* handleMention: SLACK_CHANNEL is set
    hdlTries,     \* handleMention: attempts of retry.Retry made so far
    lastError,    \* handleMention: lastError is not nil
    hdlIssues,    \* handleMention: issues; 0 is nil, k the issues fetched by attempt k
    selectedIssues,    \* handleMention: number of issues SelectTopIssues returned
    hdlIdx,       \* handleMention: index of the selected issue being posted
    hdlLog,       \* handleMention: the calls and posts made, in order
    wgIssues,     \* wait-group variant: len(issues)
    wgPlan,       \* wait-group variant: per issue, how its remote calls end
    wgMain,       \* wait-group variant: position of SelectTopIssues
    wgSpawned,    \* wait-group variant: goroutines started so far
    wgPc,         \* wait-group variant: position of each goroutine
    wgTries,      \* wait-group variant: per goroutine, attempts of retry.Retry made
    wgResult,     \* wait-group variant: per goroutine, its variable result
    wgErr,        \* wait-group variant: per goroutine, processingErr is not nil
    resultCh,     \* wait-group variant: contents of the channel resultCh
    wgRet,        \* wait-group variant: what SelectTopIssues returned
    tkNow,        \* notificationWorker: time since time.NewTicker, in tenths of a second
    tickC,        \* notificationWorker: a tick is waiting in ticker.C
    tkQueued,     \* notificationWorker: messages waiting in notifyCh
    tkSent,       \* notificationWorker: messages sent on notifyCh so far
    tkPc,         \* notificationWorker: position
    tkLastPost,   \* notificationWorker: time of the last PostMessage call
    tkGap,        \* notificationWorker: time between the last two PostMessage calls
    cvText,       \* ConvertAllMentionsToSafe: the text it is called with
    cvPc,         \* ConvertAllMentionsToSafe: position
    cvResult,     \* ConvertAllMentionsToSafe: result
    cvStart       \* ConvertAllMentionsToSafe: start of the running conversion loop

pipeVars == <<variant, nIssues, remote, slow, mainPc, spawned, pc, attemptsLeft,
              result, retryErr, scored, scoreCalls, searchFailed, sem,
              groupErr, results, writes, notifyCh, chClosed, closes, workerPc,
              workerMsg, sent, posted, postCount, emitted, postFailed, ret>>

aggVars == <<aggIn, aggOut, aggPc>>

srchVars == <<slackToken, matches, searchPc, matchIdx, visitedThreads,
              allThreadMessages, calls, searchRet, searchRound, firstRet>>

cliVars == <<cliToken, cliScores, cliPc, cliIdx, cliConvIssues, cliThreads,
             cliCalls, cliRet>>

fmtVars == <<fmtIssue, fmtPc, fmtOut>>

hdlVars == <<hdlPc, hdlEmpty, hdlChannelSet, hdlTries, lastError, hdlIssues,
             selectedIssues, hdlIdx, hdlLog>>

frontVars == <<cliVars, fmtVars, hdlVars>>

wgVars == <<wgIssues, wgPlan, wgMain, wgSpawned, wgPc, wgTries, wgResult, wgErr,
            resultCh, wgRet>>

tkVars == <<tkNow, tickC, tkQueued, tkSent, tkPc, tkLastPost, tkGap>>

cvVars == <<cvText, cvPc, cvResult, cvStart>>

backVars == <<wgVars, tkVars, cvVars>>

vars == <<pipeVars, aggVars, srchVars, frontVars, backVars>>

Tasks == 1..nIssues

\* model.Result{} : ID "" and Similarity 0
EmptyResult == [ID |-> 0, Similarity |-> 0]

NoMsg == [kind |-> "none", issue |-> 0, excluded |-> FALSE, seq |-> 0]

\* nothing returned yet; isNil: the returned slice is nil ([]model.Result{} is not)
NoReturn == [returned |-> FALSE, list |-> <<>>, err |-> FALSE, isNil |-> TRUE]

\* no scoring call of the task has returned a similarity
NoScore == 0 - 1

Min(a, b) == IF a < b THEN a ELSE b

\* ------------------------------------------------------------ aggregation

\* Go slices are indexed from 0, sequences from 1: data[i] is d[i + 1].
\* variants of less: ascending, and not strict
LessAscending(d, i, j) == d[i + 1].Similarity < d[j + 1].Similarity
LessOrEqual(d, i, j) == d[i + 1].Similarity >= d[j + 1].Similarity

\* less of sort.Slice: convIssues[i].Similarity > convIssues[j].Similarity
Less(d, i, j) == d[i + 1].Similarity > d[j + 1].Similarity

\* the swapper of sort.Slice
Swap(d, i, j) == [d EXCEPT ![i + 1] = d[j + 1], ![j + 1] = d[i + 1]]

\* bits.Len
RECURSIVE BitLen(_)
BitLen(n) == IF n = 0 THEN 0 ELSE 1 + BitLen(n \div 2)

RECURSIVE Pow2(_)
Pow2(k) == IF k = 0 THEN 1 ELSE 2 * Pow2(k - 1)

\* insertionSort_func: the inner loop, for j := i; j > a && less(j, j-1); j--
RECURSIVE InsertionInner(_, _, _)
InsertionInner(d, a, j) ==
    IF j > a /\ Less(d, j, j - 1)
    THEN InsertionInner(Swap(d, j, j - 1), a, j - 1)
    ELSE d

RECURSIVE InsertionFrom(_, _, _, _)
InsertionFrom(d, a, b, i) ==
    IF i < b THEN InsertionFrom(InsertionInner(d, a, i), a, b, i + 1) ELSE d

InsertionSort(d, a, b) == InsertionFrom(d, a, b, a + 1)

\* order2_func: <<x, y, swaps>> with data[x] not after data[y]
Order2(d, a, b, swaps) ==
    IF Less(d, b, a) THEN [x |-> b, y |-> a, swaps |-> swaps + 1]
    ELSE [x |-> a, y |-> b, swaps |-> swaps]

\* median_func
Median(d, a, b, c) ==
    LET o1 == Order2(d, a, b, 0)
        o2 == Order2(d, o1.y, c, o1.swaps)
        o3 == Order2(d, o1.x, o2.x, o2.swaps)
    IN  [idx |-> o3.y, swaps |-> o3.swaps]

\* choosePivot_func for fewer than 50 elements (the tracker returns at most 30
\* issues): no ninther, hence at most 3 swaps and never the decreasing hint.
ChoosePivot(d, a, b) ==
    LET l == b - a
        i == a + (l \div 4) * 1
        j == a + (l \div 4) * 2
        k == a + (l \div 4) * 3
        m == IF l >= 8 THEN Median(d, i, j, k) ELSE [idx |-> j, swaps |-> 0]
    IN  [pivot |-> m.idx,
         hint  |-> IF m.swaps = 0 THEN "increasing" ELSE "unknown"]

\* partialInsertionSort_func for fewer than 50 elements: it shifts nothing and
\* reports whether the range is already in order.
PartialInsertionSort(d, a, b) ==
    \A i \in (a + 1)..(b - 1) : ~Less(d, i, i - 1)

\* for i <= j && less(i, a) { i++ }
RECURSIVE ScanUp(_, _, _, _)
ScanUp(d, a, i, j) ==
    IF i <= j /\ Less(d, i, a) THEN ScanUp(d, a, i + 1, j) ELSE i

\* for i <= j && !less(j, a) { j-- }
RECURSIVE ScanDown(_, _, _, _)
ScanDown(d, a, i, j) ==
    IF i <= j /\ ~Less(d, j, a) THEN ScanDown(d, a, i, j - 1) ELSE j

RECURSIVE PartitionLoop(_, _, _, _)
PartitionLoop(d, a, i, j) ==
    LET i2 == ScanUp(d, a, i, j)
        j2 == ScanDown(d, a, i2, j)
    IN  IF i2 > j2 THEN [data |-> d, j |-> j2]
        ELSE PartitionLoop(Swap(d, i2, j2), a, i2 + 1, j2 - 1)

\* partition_func
Partition(d, a, b, pivot) ==
    LET d1 == Swap(d, a, pivot)
        i  == ScanUp(d1, a, a + 1, b - 1)
        j  == ScanDown(d1, a, i, b - 1)
    IN  IF i > j
        THEN [data |-> Swap(d1, j, a), mid |-> j, already |-> TRUE]
        ELSE LET r == PartitionLoop(Swap(d1, i, j), a, i + 1, j - 1)
             IN  [data |-> Swap(r.data, r.j, a), mid |-> r.j, already |-> FALSE]

\* for i <= j && !less(a, i) { i++ }
RECURSIVE ScanUpEq(_, _, _, _)
ScanUpEq(d, a, i, j) ==
    IF i <= j /\ ~Less(d, a, i) THEN ScanUpEq(d, a, i + 1, j) ELSE i

\* for i <= j && less(a, j) { j-- }
RECURSIVE ScanDownEq(_, _, _, _)
ScanDownEq(d, a, i, j) ==
    IF i <= j /\ Less(d, a, j) THEN ScanDownEq(d, a, i, j - 1) ELSE j

RECURSIVE PartitionEqualLoop(_, _, _, _)
PartitionEqualLoop(d, a, i, j) ==
    LET i2 == ScanUpEq(d, a, i, j)
        j2 == ScanDownEq(d, a, i2, j)
    IN  IF i2 > j2 THEN [data |-> d, mid |-> i2]
        ELSE PartitionEqualLoop(Swap(d, i2, j2), a, i2 + 1, j2 - 1)

\* partitionEqual_func
PartitionEqual(d, a, b, pivot) ==
    PartitionEqualLoop(Swap(d, a, pivot), a, a + 1, b - 1)

\* xorshift on a uint64, as the set of its one bits
XorBits(x, y) == (x \ y) \cup (y \ x)
Shl(x, k) == {p + k : p \in {q \in x : q + k < 64}}
Shr(x, k) == {p - k : p \in {q \in x : q >= k}}
ToBits(n) == {p \in 0..5 : (n \div Pow2(p)) % 2 = 1}

XorshiftNext(r) ==
    LET r1 == XorBits(r, Shl(r, 13))
        r2 == XorBits(r1, Shr(r1, 7))
    IN  XorBits(r2, Shl(r2, 17))

\* uint(random) & (2^nbits - 1)
RECURSIVE LowBits(_, _)
LowBits(r, nbits) ==
    IF nbits = 0 THEN 0
    ELSE LowBits(r, nbits - 1) + (IF (nbits - 1) \in r THEN Pow2(nbits - 1) ELSE 0)

RECURSIVE BreakLoop(_, _, _, _, _, _)
BreakLoop(d, a, length, idx, random, i) ==
    IF i = 3 THEN d
    ELSE LET next  == XorshiftNext(random)
             raw   == LowBits(next, BitLen(length))
             other == IF raw >= length THEN raw - length ELSE raw
         IN  BreakLoop(Swap(d, idx - 1 + i, a + other), a, length, idx, next, i + 1)

\* breakPatterns_func
BreakPatterns(d, a, b) ==
    LET length == b - a
    IN  IF length >= 8
        THEN BreakLoop(d, a, length, a + (length \div 4) * 2 - 1, ToBits(length), 0)
        ELSE d

\* pdqsort_func.  The heapSort fallback (limit = 0) takes more unbalanced
\* partitions of ranges above maxInsertion than a slice of fewer than 16
\* elements allows, and is not modelled.
RECURSIVE PdqSort(_, _, _, _, _, _)
PdqSort(d, a, b, limit, wasBalanced, wasPartitioned) ==
    LET length == b - a IN
    IF length <= maxInsertion THEN InsertionSort(d, a, b)
    ELSE
      LET d1     == IF wasBalanced THEN d ELSE BreakPatterns(d, a, b)
          limit1 == IF wasBalanced THEN limit ELSE limit - 1
          cp     == ChoosePivot(d1, a, b)
      IN  IF /\ wasBalanced
             /\ wasPartitioned
             /\ cp.hint = "increasing"
             /\ PartialInsertionSort(d1, a, b)
          THEN d1
          ELSE IF a > 0 /\ ~Less(d1, a - 1, cp.pivot)
          THEN LET pe == PartitionEqual(d1, a, b, cp.pivot)
               IN  PdqSort(pe.data, pe.mid, b, limit1, wasBalanced, wasPartitioned)
          ELSE LET p        == Partition(d1, a, b, cp.pivot)
                   leftLen  == p.mid - a
                   rightLen == b - p.mid
                   balanceThreshold == length \div 8
               IN  IF leftLen < rightLen
                   THEN PdqSort(PdqSort(p.data, a, p.mid, limit1, TRUE, TRUE),
                                p.mid + 1, b, limit1,
                                leftLen >= balanceThreshold, p.already)
                   ELSE PdqSort(PdqSort(p.data, p.mid + 1, b, limit1, TRUE, TRUE),
                                a, p.mid, limit1,
                                rightLen >= balanceThreshold, p.already)

\* sort.Slice(convIssues, less)
SortSlice(d) == PdqSort(d, 0, Len(d), BitLen(Len(d)), TRUE, TRUE)

\* variant: the result is built whatever the similarity
AttemptResultUnfiltered(i, similarity) == [ID |-> i, Similarity |-> similarity]

\* variant: a similarity of exactly 0.3 is excluded too
AttemptResultAtThreshold(i, similarity) ==
    IF similarity <= Threshold THEN EmptyResult
    ELSE [ID |-> i, Similarity |-> similarity]

\* the closure passed to retry.Retry, after a score was obtained
AttemptResult(i, similarity) ==
    IF similarity < Threshold THEN EmptyResult
    ELSE [ID |-> i, Similarity |-> similarity]

\* variant: empty slots are not filtered out
NonEmptyAlways(r) == TRUE

NonEmpty(r) == r.ID # 0

\* results -> returned list: drop empty IDs, sort by similarity, keep five
Aggregate(rs) ==
    LET convIssues == SelectSeq(rs, NonEmpty)
    IN  IF Len(convIssues) = 0 THEN <<>>
        ELSE LET sorted == SortSlice(convIssues)
             IN  IF Len(sorted) < TopK THEN sorted ELSE SubSeq(sorted, 1, TopK)

\* ------------------------------------------------- the pipeline: one run

\* seq is the message's rank among the sends on notifyCh (0: posted directly)
ErrorMsg(i, seq) == [kind |-> "error", issue |-> i, excluded |-> FALSE, seq |-> seq]

\* variant: the completion message never takes the excluded form
CompleteMsgNeverExcluded(i, r, seq) ==
    [kind |-> "complete", issue |-> i, excluded |-> FALSE, seq |-> seq]

\* completeMsg: the excluded form when result.Similarity < 0.3
CompleteMsg(i, r, seq) ==
    [kind |-> "complete", issue |-> i, excluded |-> r.Similarity < Threshold,
     seq |-> seq]

\* the text of a message: error, complete or excluded (the complete form that
\* says the candidate was excluded)
MsgForm(m) == IF m.kind = "complete" /\ m.excluded THEN "excluded" ELSE m.kind

StartMsg(i) == [kind |-> "start", issue |-> i, excluded |-> FALSE, seq |-> 0]

\* what one call of the retried closure can come to: the thread search fails,
\* the scoring call fails, or the scoring call returns a similarity
Outcomes ==
    {[err |-> e, similarity |-> 0] : e \in {"search", "similarity"}}
        \cup {[err |-> "nil", similarity |-> sc] : sc \in Scores}

\* SelectTopIssues is about to be called with nIssues candidates
PipeInit ==
    /\ mainPc = "start"
    /\ spawned = 0
    /\ pc = [i \in Tasks |-> "unspawned"]
    /\ attemptsLeft = [i \in Tasks |-> RetryCount]
    /\ result = [i \in Tasks |-> EmptyResult]
    /\ retryErr = [i \in Tasks |-> "nil"]
    /\ scored = [i \in Tasks |-> NoScore]
    /\ scoreCalls = [i \in Tasks |-> 0]
    /\ searchFailed = [i \in Tasks |-> 0]
    /\ sem = 0
    /\ groupErr = FALSE
    /\ results = <<>>
    /\ writes = [i \in Tasks |-> <<>>]
    /\ notifyCh = <<>>
    /\ chClosed = FALSE
    /\ closes = 0
    /\ workerPc = "unstarted"
    /\ workerMsg = NoMsg
    /\ sent = 0
    /\ posted = [i \in Tasks |-> <<>>]
    /\ postCount = 0
    /\ emitted = [i \in Tasks |-> <<>>]
    /\ postFailed = FALSE
    /\ ret = NoReturn

AggIdle ==
    /\ aggIn = <<>>
    /\ aggOut = <<>>
    /\ aggPc = "idle"

\* nothing returned yet; isNil: the returned slice is nil
NoSearchReturn == [returned |-> FALSE, msgs |-> <<>>, isNil |-> TRUE, err |-> "nil"]

\* SearchThreads is not running
SearchIdle ==
    /\ slackToken = TRUE
    /\ matches = <<>>
    /\ searchPc = "idle"
    /\ matchIdx = 0
    /\ visitedThreads = {}
    /\ allThreadMessages = <<>>
    /\ calls = <<>>
    /\ searchRet = NoSearchReturn
    /\ searchRound = 1
    /\ firstRet = NoSearchReturn

\* what searchThreads returned: none yet
NoThreads == [called |-> FALSE, n |-> 0, err |-> FALSE, isNil |-> TRUE]

\* the CLI's selectTopIssues is not running
CliIdle ==
    /\ cliToken = TRUE
    /\ cliScores = <<>>
    /\ cliPc = "idle"
    /\ cliIdx = 0
    /\ cliConvIssues = <<>>
    /\ cliThreads = NoThreads
    /\ cliCalls = <<>>
    /\ cliRet = NoReturn

NoIssue == [summary |-> <<>>, description |-> <<>>, comments |-> <<>>]

\* formatIssue is not running
FmtIdle ==
    /\ fmtIssue = NoIssue
    /\ fmtPc = "idle"
    /\ fmtOut = <<>>

\* no mention is being handled
HdlIdle ==
    /\ hdlPc = "idle"
    /\ hdlEmpty = FALSE
    /\ hdlChannelSet = FALSE
    /\ hdlTries = 0
    /\ lastError = FALSE
    /\ hdlIssues = 0
    /\ selectedIssues = 0
    /\ hdlIdx = 0
    /\ hdlLog = <<>>

FrontIdle == CliIdle /\ FmtIdle /\ HdlIdle

\* the wait-group variant of SelectTopIssues is not running
WgIdle ==
    /\ wgIssues = 0
    /\ wgPlan = <<>>
    /\ wgMain = "idle"
    /\ wgSpawned = 0
    /\ wgPc = <<>>
    /\ wgTries = <<>>
    /\ wgResult = <<>>
    /\ wgErr = <<>>
    /\ resultCh = <<>>
    /\ wgRet = NoReturn

\* no PostMessage call was made
NoPost == 0 - 1

\* no notification worker is running
TkIdle ==
    /\ tkNow = 0
    /\ tickC = FALSE
    /\ tkQueued = 0
    /\ tkSent = 0
    /\ tkPc = "idle"
    /\ tkLastPost = NoPost
    /\ tkGap = NoPost

\* ConvertAllMentionsToSafe is not running
CvIdle ==
    /\ cvText = <<>>
    /\ cvPc = "idle"
    /\ cvResult = <<>>
    /\ cvStart = 0

BackIdle == WgIdle /\ TkIdle /\ CvIdle

\* SelectTopIssues is not running
PipeIdle ==
    /\ variant = "sem"
    /\ nIssues = 0
    /\ remote = {}
    /\ slow = {}
    /\ PipeInit

Init ==
    /\ variant \in {"sem", "errgroup"}
    /\ nIssues \in 0..MaxIssues
    /\ remote = Outcomes
    /\ slow = {}
    /\ PipeInit
    /\ FrontIdle
    /\ BackIdle
    /\ AggIdle
    /\ SearchIdle

\* variant: the empty candidate list is not returned early
EmptyInputNever(n) == FALSE

\* if len(issues) == 0
EmptyInput(n) == n = 0

\* SelectTopIssues up to the loop: the empty-list return, make(results), and in
\* the semaphore variant the start of the notification worker
Start ==
    /\ mainPc = "start"
    /\ IF EmptyInput(nIssues)
       THEN /\ ret' = [returned |-> TRUE, list |-> <<>>, err |-> FALSE,
                       isNil |-> FALSE]
            /\ mainPc' = "returned"
            /\ UNCHANGED <<results, workerPc>>
       ELSE /\ results' = [i \in Tasks |-> EmptyResult]
            /\ workerPc' = IF variant = "sem" THEN "recv" ELSE workerPc
            /\ mainPc' = "spawn"
            /\ UNCHANGED ret
    /\ UNCHANGED <<variant, nIssues, remote, slow, spawned, pc, attemptsLeft,
                   result, retryErr, scored, scoreCalls, searchFailed, sem,
                   groupErr, writes, notifyCh, chClosed, closes, workerMsg,
                   sent, posted, postCount, emitted, postFailed, aggVars,
                   srchVars, frontVars, backVars>>

\* one iteration of for i, issue := range issues { g.Go(...) }
Spawn ==
    /\ mainPc = "spawn"
    /\ IF spawned < nIssues
       THEN /\ spawned' = spawned + 1
            /\ pc' = [pc EXCEPT ![spawned + 1] =
                        IF variant = "sem" THEN "acquire" ELSE "notifyStart"]
            /\ UNCHANGED mainPc
       ELSE /\ mainPc' = "wait"
            /\ UNCHANGED <<spawned, pc>>
    /\ UNCHANGED <<variant, nIssues, remote, slow, attemptsLeft, result,
                   retryErr, scored, scoreCalls, searchFailed, sem, groupErr,
                   results, writes, notifyCh, chClosed, closes, workerPc,
                   workerMsg, sent, posted, postCount, emitted, postFailed,
                   ret, aggVars, srchVars, frontVars, backVars>>

\* variant: Acquire never waits
PermitAlways == TRUE

\* semaphore.NewWeighted(maxConcurrency): a permit is free
PermitFree == sem < maxConcurrency

\* sem.Acquire(gctx, 1): fails once gctx is cancelled, else takes a free permit
\* (blocks while there is none); on failure the task returns the error, which
\* sets g.err and cancels gctx
Acquire(i) ==
    /\ variant = "sem"
    /\ pc[i] = "acquire"
    /\ IF groupErr
       THEN /\ pc' = [pc EXCEPT ![i] = "done"]
            /\ UNCHANGED sem
       ELSE /\ PermitFree
            /\ sem' = sem + 1
            /\ pc' = [pc EXCEPT ![i] = "retry"]
    /\ UNCHANGED <<variant, nIssues, remote, slow, mainPc, spawned,
                   attemptsLeft, result, retryErr, scored, scoreCalls,
                   searchFailed, groupErr, results, writes, notifyCh,
                   chClosed, closes, workerPc, workerMsg, sent, posted,
                   postCount, emitted, postFailed, ret, aggVars, srchVars,
                   frontVars, backVars>>

\* variant: a task whose notification failed returns at once
AfterNotifyAborts(ok, next) == IF ok THEN next ELSE "done"

\* errgroup variant: if err := s.notify...(); err != nil { fmt.Printf(...) }:
\* the task goes on to its next statement whether the post succeeded or not
AfterNotify(ok, next) == next

\* errgroup variant: notifyProcessingStart, a direct post whose error is only
\* printed
NotifyStart(i) ==
    /\ variant = "errgroup"
    /\ pc[i] = "notifyStart"
    /\ emitted' = [emitted EXCEPT ![i] = Append(@, "start")]
    /\ \E ok \in BOOLEAN :
         /\ postFailed' = (postFailed \/ ~ok)
         /\ pc' = [pc EXCEPT ![i] = AfterNotify(ok, "retry")]
    /\ UNCHANGED <<variant, nIssues, remote, slow, mainPc, spawned,
                   attemptsLeft, result, retryErr, scored, scoreCalls,
                   searchFailed, sem, groupErr, results, writes, notifyCh,
                   chClosed, closes, workerPc, workerMsg, sent, posted,
                   postCount, ret, aggVars, srchVars, frontVars, backVars>>

\* variant: the error branch is never taken
AfterRetrySkipsError(err) == "notifyComplete"

\* if retryErr != nil { ... error notification ... }
AfterRetry(err) == IF err # "nil" THEN "notifyError" ELSE "notifyComplete"

\* variant: the loop goes on until the attempts are used up
RetryStopsOnCount(err, n) == n <= 0

\* retry.Retry: the loop ends when fn returned nil or no attempt is left
RetryStops(err, n) == err = "nil" \/ n <= 0

\* variant: the scoring call is made whatever the thread search returned
OracleCalledAlways(err) == TRUE

\* the closure reaches s.openAI.CalculateSimilarity unless SearchThreads failed
OracleCalled(err) == err # "search"

\* one round of retry.Retry(3, 3s, fn): n--, err = fn(), stop when err is nil
\* or n is 0, else sleep and go round again.  The remote calls of a slow task
\* return only after the other tasks are done.
Attempt(i) ==
    /\ pc[i] = "retry"
    /\ i \in slow => \A j \in Tasks \ slow : pc[j] = "done"
    /\ \E o \in remote :
         LET n == attemptsLeft[i] - 1 IN
         /\ attemptsLeft' = [attemptsLeft EXCEPT ![i] = n]
         /\ scoreCalls' = [scoreCalls EXCEPT ![i] =
                              IF OracleCalled(o.err) THEN @ + 1 ELSE @]
         /\ searchFailed' = [searchFailed EXCEPT ![i] =
                                IF o.err = "search" THEN @ + 1 ELSE @]
         /\ IF o.err = "nil"
            THEN /\ result' = [result EXCEPT ![i] = AttemptResult(i, o.similarity)]
                 /\ scored' = [scored EXCEPT ![i] = o.similarity]
            ELSE /\ UNCHANGED <<result, scored>>
         /\ IF RetryStops(o.err, n)
            THEN /\ retryErr' = [retryErr EXCEPT ![i] =
                                   IF o.err = "nil" THEN "nil" ELSE "error"]
                 /\ pc' = [pc EXCEPT ![i] = AfterRetry(o.err)]
            ELSE /\ UNCHANGED <<retryErr, pc>>
    /\ UNCHANGED <<variant, nIssues, remote, slow, mainPc, spawned, sem,
                   groupErr, results, writes, notifyCh, chClosed, closes,
                   workerPc, workerMsg, sent, posted, postCount, emitted,
                   postFailed, ret, aggVars, srchVars, frontVars, backVars>>

\* if retryErr != nil: the error notification, then result = model.Result{}.
\* The semaphore variant sends on notifyCh (blocking while the buffer is full),
\* the errgroup variant posts directly (notifyProcessingError).
NotifyError(i) ==
    /\ pc[i] = "notifyError"
    /\ IF variant = "sem"
       THEN /\ Len(notifyCh) < NotifyBuf
            /\ notifyCh' = Append(notifyCh, ErrorMsg(i, sent + 1))
            /\ sent' = sent + 1
            /\ pc' = [pc EXCEPT ![i] = "notifyComplete"]
            /\ UNCHANGED postFailed
       ELSE /\ \E ok \in BOOLEAN :
                 /\ postFailed' = (postFailed \/ ~ok)
                 /\ pc' = [pc EXCEPT ![i] = AfterNotify(ok, "notifyComplete")]
            /\ UNCHANGED <<notifyCh, sent>>
    /\ emitted' = [emitted EXCEPT ![i] = Append(@, "error")]
    /\ result' = [result EXCEPT ![i] = EmptyResult]
    /\ UNCHANGED <<variant, nIssues, remote, slow, mainPc, spawned,
                   attemptsLeft, retryErr, scored, scoreCalls, searchFailed,
                   sem, groupErr, results, writes, chClosed, closes, workerPc,
                   workerMsg, posted, postCount, ret, aggVars, srchVars,
                   frontVars, backVars>>

\* the completion notification (notifyProcessingComplete in the errgroup variant)
NotifyComplete(i) ==
    /\ pc[i] = "notifyComplete"
    /\ IF variant = "sem"
       THEN /\ Len(notifyCh) < NotifyBuf
            /\ notifyCh' = Append(notifyCh, CompleteMsg(i, result[i], sent + 1))
            /\ sent' = sent + 1
            /\ pc' = [pc EXCEPT ![i] = "store"]
            /\ UNCHANGED postFailed
       ELSE /\ \E ok \in BOOLEAN :
                 /\ postFailed' = (postFailed \/ ~ok)
                 /\ pc' = [pc EXCEPT ![i] = AfterNotify(ok, "store")]
            /\ UNCHANGED <<notifyCh, sent>>
    /\ emitted' = [emitted EXCEPT ![i] =
                     Append(@, MsgForm(CompleteMsg(i, result[i], 0)))]
    /\ UNCHANGED <<variant, nIssues, remote, slow, mainPc, spawned,
                   attemptsLeft, result, retryErr, scored, scoreCalls,
                   searchFailed, sem, groupErr, results, writes, chClosed,
                   closes, workerPc, workerMsg, posted, postCount, ret,
                   aggVars, srchVars, frontVars, backVars>>

\* variant: the task returns its retry error
TaskReturnsRetryErr(err) == err

\* the error the task's closure returns after storing: return nil
TaskReturn(err) == "nil"

\* variant: every task stores into the slot of the first one
StoreSlotShared(i) == 1

\* variant: a task stores into the next slot not yet written
StoreSlotByCompletion(i) == 1 + Cardinality({j \in Tasks : writes[j] # <<>>})

\* the slot the task with loop index i stores into
StoreSlot(i) == i

\* mu.Lock(); results[i] = result; mu.Unlock(); in the errgroup variant the
\* task then returns nil.  A task that returned has no locals left: result,
\* retryErr, the retry counter and the count of its scoring calls are cleared.
Store(i) ==
    /\ pc[i] = "store"
    /\ results' = [results EXCEPT ![StoreSlot(i)] = result[i]]
    /\ writes' = [writes EXCEPT ![StoreSlot(i)] = Append(@, i)]
    /\ IF variant = "sem"
       THEN /\ pc' = [pc EXCEPT ![i] = "release"]
            /\ UNCHANGED <<result, retryErr, groupErr, attemptsLeft,
                           scoreCalls, searchFailed>>
       ELSE /\ pc' = [pc EXCEPT ![i] = "done"]
            /\ attemptsLeft' = [attemptsLeft EXCEPT ![i] = 0]
            /\ scoreCalls' = [scoreCalls EXCEPT ![i] = 0]
            /\ searchFailed' = [searchFailed EXCEPT ![i] = 0]
            /\ groupErr' = (groupErr \/ TaskReturn(retryErr[i]) # "nil")
            /\ result' = [result EXCEPT ![i] = EmptyResult]
            /\ retryErr' = [retryErr EXCEPT ![i] = "nil"]
    /\ UNCHANGED <<variant, nIssues, remote, slow, mainPc, spawned, scored,
                   sem, notifyCh, chClosed, closes, workerPc, workerMsg, sent,
                   posted, postCount, emitted, postFailed, ret, aggVars,
                   srchVars, frontVars, backVars>>

\* variant: the permit is not given back
SemNoRelease(cur) == cur

\* the deferred sem.Release(1)
SemAfterRelease(cur) == cur - 1

\* return nil, running the deferred sem.Release(1); a non-nil return would set
\* g.err and cancel gctx
Release(i) ==
    /\ variant = "sem"
    /\ pc[i] = "release"
    /\ sem' = SemAfterRelease(sem)
    /\ groupErr' = (groupErr \/ TaskReturn(retryErr[i]) # "nil")
    /\ pc' = [pc EXCEPT ![i] = "done"]
    /\ result' = [result EXCEPT ![i] = EmptyResult]
    /\ retryErr' = [retryErr EXCEPT ![i] = "nil"]
    /\ attemptsLeft' = [attemptsLeft EXCEPT ![i] = 0]
    /\ scoreCalls' = [scoreCalls EXCEPT ![i] = 0]
    /\ searchFailed' = [searchFailed EXCEPT ![i] = 0]
    /\ UNCHANGED <<variant, nIssues, remote, slow, mainPc, spawned, scored,
                   results, writes, notifyCh, chClosed, closes, workerPc,
                   workerMsg, sent, posted, postCount, emitted, postFailed,
                   ret, aggVars, srchVars, frontVars, backVars>>

\* variant: g.Wait() does not wait for the tasks
AllDoneNoWait == TRUE

\* every goroutine of the group returned
AllDone == \A i \in Tasks : pc[i] = "done"

\* g.Wait() returns once every task returned; the semaphore variant then
\* closes notifyCh (on the error path and on the normal path alike)
Wait ==
    /\ mainPc = "wait"
    /\ AllDone
    /\ IF variant = "sem"
       THEN /\ chClosed' = TRUE
            /\ closes' = closes + 1
            /\ mainPc' = "notifyWait"
       ELSE /\ UNCHANGED <<chClosed, closes>>
            /\ mainPc' = IF groupErr THEN "fail" ELSE "aggregate"
    /\ UNCHANGED <<variant, nIssues, remote, slow, spawned, pc, attemptsLeft,
                   result, retryErr, scored, scoreCalls, searchFailed, sem,
                   groupErr, results, writes, notifyCh, workerPc, workerMsg,
                   sent, posted, postCount, emitted, postFailed, ret, aggVars,
                   srchVars, frontVars, backVars>>

\* variant: SelectTopIssues does not wait for the worker
WorkerDoneNoWait == TRUE

\* the worker ran its deferred wg.Done()
WorkerDone == workerPc = "exited"

\* notifyWg.Wait(): returns once the worker has exited
NotifyWait ==
    /\ mainPc = "notifyWait"
    /\ WorkerDone
    /\ mainPc' = IF groupErr THEN "fail" ELSE "aggregate"
    /\ UNCHANGED <<variant, nIssues, remote, slow, spawned, pc, attemptsLeft,
                   result, retryErr, scored, scoreCalls, searchFailed, sem,
                   groupErr, results, writes, notifyCh, chClosed, closes,
                   workerPc, workerMsg, sent, posted, postCount, emitted,
                   postFailed, ret, aggVars, srchVars, frontVars, backVars>>

\* the tail of SelectTopIssues: return nil, err after a failed g.Wait, else
\* collect, sort and truncate
Return ==
    /\ mainPc \in {"fail", "aggregate"}
    /\ ret' = IF mainPc = "fail"
              THEN [returned |-> TRUE, list |-> <<>>, err |-> TRUE, isNil |-> TRUE]
              ELSE [returned |-> TRUE, list |-> Aggregate(results), err |-> FALSE,
                    isNil |-> FALSE]
    /\ mainPc' = "returned"
    /\ UNCHANGED <<variant, nIssues, remote, slow, spawned, pc, attemptsLeft,
                   result, retryErr, scored, scoreCalls, searchFailed, sem,
                   groupErr, results, writes, notifyCh, chClosed, closes,
                   workerPc, workerMsg, sent, posted, postCount, emitted,
                   postFailed, aggVars, srchVars, frontVars, backVars>>

\* variant: the newest message is received first
ReceivedLast(ch) == Len(ch)

\* msg, ok := <-notifyCh: a receive takes the oldest message of the buffer
Received(ch) == 1

\* the buffer after the k-th message was taken out
Remove(ch, k) == SubSeq(ch, 1, k - 1) \o SubSeq(ch, k + 1, Len(ch))

\* notificationWorker, the select: a message is received, or the channel is
\* closed and drained and the worker returns (ctx is context.Background: its
\* Done case never fires)
WorkerRecv ==
    /\ workerPc = "recv"
    /\ IF notifyCh # <<>>
       THEN /\ workerMsg' = notifyCh[Received(notifyCh)]
            /\ notifyCh' = Remove(notifyCh, Received(notifyCh))
            /\ workerPc' = "tick"
       ELSE /\ chClosed
            /\ workerPc' = "exited"
            /\ UNCHANGED <<workerMsg, notifyCh>>
    /\ UNCHANGED <<variant, nIssues, remote, slow, mainPc, spawned, pc,
                   attemptsLeft, result, retryErr, scored, scoreCalls,
                   searchFailed, sem, groupErr, results, writes, chClosed,
                   closes, sent, posted, postCount, emitted, postFailed, ret,
                   aggVars, srchVars, frontVars, backVars>>

\* <-ticker.C, then PostMessage; a failed post is only logged and the worker
\* goes back to the select
WorkerPost ==
    /\ workerPc = "tick"
    /\ \E ok \in BOOLEAN : postFailed' = (postFailed \/ ~ok)
    /\ posted' = [posted EXCEPT ![workerMsg.issue] = Append(@, MsgForm(workerMsg))]
    /\ postCount' = postCount + 1
    /\ workerMsg' = NoMsg
    /\ workerPc' = "recv"
    /\ UNCHANGED <<variant, nIssues, remote, slow, mainPc, spawned, pc,
                   attemptsLeft, result, retryErr, scored, scoreCalls,
                   searchFailed, sem, groupErr, results, writes, notifyCh,
                   chClosed, closes, sent, emitted, ret, aggVars, srchVars,
                   frontVars, backVars>>

Next ==
    \/ Start
    \/ Spawn
    \/ \E i \in Tasks : Acquire(i)
    \/ \E i \in Tasks : NotifyStart(i)
    \/ \E i \in Tasks : Attempt(i)
    \/ \E i \in Tasks : NotifyError(i)
    \/ \E i \in Tasks : NotifyComplete(i)
    \/ \E i \in Tasks : Store(i)
    \/ \E i \in Tasks : Release(i)
    \/ Wait
    \/ NotifyWait
    \/ Return
    \/ WorkerRecv
    \/ WorkerPost

Spec == Init /\ [][Next]_vars

\* A saturated run of the semaphore variant: more candidates than permits.
\* Every remote call succeeds with the same similarity, and the calls of the
\* first maxConcurrency - 1 tasks are slow, so these tasks keep their permits
\* while the others compete for the last one.
SatInit ==
    /\ variant = "sem"
    /\ nIssues \in (maxConcurrency + 1)..(maxConcurrency + MaxOver)
    /\ remote = {[err |-> "nil", similarity |-> 90]}
    /\ slow = 1..(maxConcurrency - 1)
    /\ PipeInit
    /\ FrontIdle
    /\ BackIdle
    /\ AggIdle
    /\ SearchIdle

\* The steps that can be taken from SatInit: NotifyStart belongs to the
\* errgroup variant and NotifyError needs a failed call, so neither is ever
\* enabled here and the behaviours are those of Next.
SatNext ==
    \/ Start
    \/ Spawn
    \/ \E i \in Tasks : Acquire(i)
    \/ \E i \in Tasks : Attempt(i)
    \/ \E i \in Tasks : NotifyComplete(i)
    \/ \E i \in Tasks : Store(i)
    \/ \E i \in Tasks : Release(i)
    \/ Wait
    \/ NotifyWait
    \/ Return
    \/ WorkerRecv
    \/ WorkerPost

SpecSat == SatInit /\ [][SatNext]_vars

\* The saturated run under fair scheduling: a step that can be taken is
\* eventually taken (every remote call and post returns, the ticker ticks, a
\* runnable goroutine runs).
SpecSatFair == SatInit /\ [][SatNext]_vars /\ WF_vars(SatNext)

\* A run whose notifications outnumber the buffer of notifyCh: every attempt
\* of every candidate fails in the thread search, so each task enqueues an
\* error and a completion notification.
FloodIssues == NotifyBuf \div 2 + 1

FloodInit ==
    /\ variant = "sem"
    /\ nIssues = FloodIssues
    /\ remote = {[err |-> "search", similarity |-> 0]}
    /\ slow = {}
    /\ PipeInit
    /\ FrontIdle
    /\ BackIdle
    /\ AggIdle
    /\ SearchIdle

\* the goroutines start running after the loop that spawned them, one after
\* the other in the order of their candidates
Turn(i) == mainPc = "wait" /\ \A j \in 1..(i - 1) : pc[j] = "done"

\* the worker's posts are slow: it gets to its next step only when the buffer
\* is full or the channel closed
WorkerTurn == Len(notifyCh) = NotifyBuf \/ chClosed \/ workerPc = "tick"

\* The steps of Next under one schedule the Go runtime may choose.
FloodNext ==
    \/ Start
    \/ Spawn
    \/ \E i \in Tasks : Turn(i) /\ Acquire(i)
    \/ \E i \in Tasks : Turn(i) /\ Attempt(i)
    \/ \E i \in Tasks : Turn(i) /\ NotifyError(i)
    \/ \E i \in Tasks : Turn(i) /\ NotifyComplete(i)
    \/ \E i \in Tasks : Turn(i) /\ Store(i)
    \/ \E i \in Tasks : Turn(i) /\ Release(i)
    \/ Wait
    \/ NotifyWait
    \/ Return
    \/ WorkerTurn /\ WorkerRecv
    \/ WorkerTurn /\ WorkerPost

SpecFlood == FloodInit /\ [][FloodNext]_vars

\* A run of the errgroup variant over more candidates than the limit the
\* semaphore variant enforces.  Every remote call succeeds with the same
\* similarity, and the calls of the first maxConcurrency - 1 tasks are slow.
ErrInit ==
    /\ variant = "errgroup"
    /\ nIssues \in (maxConcurrency + 1)..(maxConcurrency + MaxOver)
    /\ remote = {[err |-> "nil", similarity |-> 90]}
    /\ slow = 1..(maxConcurrency - 1)
    /\ PipeInit
    /\ FrontIdle
    /\ BackIdle
    /\ AggIdle
    /\ SearchIdle

\* The steps that can be taken from ErrInit: there is no semaphore, no
\* notification worker and no failed call.
ErrNext ==
    \/ Start
    \/ Spawn
    \/ \E i \in Tasks : NotifyStart(i)
    \/ \E i \in Tasks : Attempt(i)
    \/ \E i \in Tasks : NotifyComplete(i)
    \/ \E i \in Tasks : Store(i)
    \/ Wait
    \/ Return

SpecErr == ErrInit /\ [][ErrNext]_vars

\* ------------------------------------------- aggregation on a fixed slice

\* the slice results after every task stored: slot i is empty or carries ID i
ResultSlice(sc) == [i \in 1..Len(sc) |-> AttemptResult(i, sc[i])]

AggScores == Scores \cup {50}

LongScores == {30, 90}

\* 7 candidates with scores 0.9, 0.1, 0.5, 0.7, 0.2, 0.8, 0.35
ExampleScores == <<90, 10, 50, 70, 20, 80, 35>>

ShortScoreLists == UNION {[1..n -> AggScores] : n \in 0..MaxShortLen}

LongScoreLists ==
    UNION {[1..n -> LongScores] :
             n \in (maxInsertion + 1)..(maxInsertion + 1 + MaxLongExtra)}

AggInputs ==
    {ResultSlice(sc) : sc \in ShortScoreLists \cup LongScoreLists \cup {ExampleScores}}

AggInit ==
    /\ variant = "sem"
    /\ nIssues = 0
    /\ remote = {}
    /\ slow = {}
    /\ PipeInit
    /\ FrontIdle
    /\ BackIdle
    /\ aggIn \in AggInputs
    /\ aggOut = <<>>
    /\ aggPc = "run"
    /\ SearchIdle

\* the aggregation step applied to the slice
AggRun ==
    /\ aggPc = "run"
    /\ aggOut' = <<Aggregate(aggIn)>>
    /\ aggPc' = "rerun"
    /\ UNCHANGED <<pipeVars, srchVars, frontVars, backVars, aggIn>>

\* ... applied to the same slice a second time
AggRerun ==
    /\ aggPc = "rerun"
    /\ aggOut' = Append(aggOut, Aggregate(aggIn))
    /\ aggPc' = "reapply"
    /\ UNCHANGED <<pipeVars, srchVars, frontVars, backVars, aggIn>>

\* ... applied to its own output
AggReapply ==
    /\ aggPc = "reapply"
    /\ aggOut' = Append(aggOut, Aggregate(aggOut[1]))
    /\ aggPc' = "done"
    /\ UNCHANGED <<pipeVars, srchVars, frontVars, backVars, aggIn>>

AggNext == AggRun \/ AggRerun \/ AggReapply

SpecAgg == AggInit /\ [][AggNext]_vars

\* ------------------------------------------------- Slack.SearchThreads

\* channel IDs and message timestamps as Slack hands them out: letters and
\* digits, the one a prefix of the other
ChannelIDs == {"C", "C1"}

Timestamps == {"1", "11"}

\* a search match together with what Slack holds for it: thread is the
\* ThreadTimestamp of the message at (channel, ts), "" when it is in no thread
Matches == [channel : ChannelIDs, ts : Timestamps, thread : {"", "1"}]

MatchLists == UNION {[1..n -> Matches] : n \in 0..MaxMatches}

\* variant: the match's own timestamp is always taken
ParentTSOwn(parentMsg) == parentMsg.Timestamp

\* parentTS: the thread timestamp if the message has one, else its own
ParentTS(parentMsg) ==
    IF parentMsg.ThreadTimestamp # "" THEN parentMsg.ThreadTimestamp
    ELSE parentMsg.Timestamp

\* threadKey := channelID + ":" + parentTS
ThreadKey(channelID, parentTS) == channelID \o ":" \o parentTS

\* what GetConversationReplies returns for a thread: the root message and a reply
Replies(channelID, parentTS) ==
    <<[ChannelID |-> channelID, Timestamp |-> parentTS],
      [ChannelID |-> channelID, Timestamp |-> parentTS \o "9"]>>

\* variant: the messages collected so far are returned with the error
FailedMsgsPartial(msgs) == msgs

\* return nil, fmt.Errorf(...): the messages returned along with an error
FailedMsgs(msgs) == <<>>

\* SearchThreads returns an error
SearchFail(e) == [returned |-> TRUE, msgs |-> FailedMsgs(allThreadMessages),
                  isNil |-> FailedMsgs(allThreadMessages) = <<>>, err |-> e]

Call(op, channelID, ts, res) == [op |-> op, channel |-> channelID, ts |-> ts, res |-> res]

\* SearchThreads is called and the keyword search has not been made yet.
\* NewSlack hands os.Getenv("SLACK_USER_TOKEN") to slack.New whether it is set
\* or not, and SearchThreads never looks at it.
SearchInit ==
    /\ variant = "sem"
    /\ nIssues = 0
    /\ remote = {}
    /\ slow = {}
    /\ PipeInit
    /\ FrontIdle
    /\ BackIdle
    /\ AggIdle
    /\ slackToken \in BOOLEAN
    /\ matches \in MatchLists
    /\ searchPc = "search"
    /\ matchIdx = 0
    /\ visitedThreads = {}
    /\ allThreadMessages = <<>>
    /\ calls = <<>>
    /\ searchRet = NoSearchReturn
    /\ searchRound = 1
    /\ firstRet = NoSearchReturn

\* h.client.SearchMessages: on an error SearchThreads returns it, else the
\* loop over the matches starts with an empty map and a nil slice
SearchMessages ==
    /\ searchPc = "search"
    /\ \E ok \in BOOLEAN :
         /\ calls' = Append(calls, Call("search", "", "", IF ok THEN "ok" ELSE "error"))
         /\ IF ok
            THEN /\ searchPc' = "loop"
                 /\ matchIdx' = 1
                 /\ UNCHANGED searchRet
            ELSE /\ searchPc' = "returned"
                 /\ searchRet' = SearchFail("search")
                 /\ UNCHANGED matchIdx
    /\ UNCHANGED <<pipeVars, aggVars, frontVars, backVars, slackToken,
                   searchRound, firstRet, matches, visitedThreads,
                   allThreadMessages>>

\* one iteration of for _, match := range searchResult.Matches: the history
\* lookup of the match (an error, no message, or the message), the thread key
\* and the visited check, and for a new thread the reply fetch
SearchMatch ==
    /\ searchPc = "loop"
    /\ matchIdx <= Len(matches)
    /\ LET match == matches[matchIdx]
           channelID == match.channel
           parentMsg == [Timestamp |-> match.ts, ThreadTimestamp |-> match.thread]
           parentTS == ParentTS(parentMsg)
           threadKey == ThreadKey(channelID, parentTS)
       IN  \E history \in {"error", "empty", "ok"} :
             LET lookup == Call("history", channelID, match.ts, history) IN
             IF history = "error"
             THEN /\ calls' = Append(calls, lookup)
                  /\ searchPc' = "returned"
                  /\ searchRet' = SearchFail("history")
                  /\ UNCHANGED <<matchIdx, visitedThreads, allThreadMessages>>
             ELSE IF history = "empty" \/ threadKey \in visitedThreads
             THEN /\ calls' = Append(calls, lookup)
                  /\ matchIdx' = matchIdx + 1
                  /\ UNCHANGED <<searchPc, searchRet, visitedThreads,
                                 allThreadMessages>>
             ELSE /\ visitedThreads' = visitedThreads \cup {threadKey}
                  /\ \E ok \in BOOLEAN :
                       /\ calls' = calls \o <<lookup, Call("replies", channelID, parentTS,
                                                        IF ok THEN "ok" ELSE "error")>>
                       /\ IF ok
                          THEN /\ allThreadMessages' =
                                     allThreadMessages \o Replies(channelID, parentTS)
                               /\ matchIdx' = matchIdx + 1
                               /\ UNCHANGED <<searchPc, searchRet>>
                          ELSE /\ searchPc' = "returned"
                               /\ searchRet' = SearchFail("replies")
                               /\ UNCHANGED <<matchIdx, allThreadMessages>>
    /\ UNCHANGED <<pipeVars, aggVars, frontVars, backVars, slackToken,
                   searchRound, firstRet, matches>>

\* return allThreadMessages, nil (a nil slice when nothing was appended)
SearchReturn ==
    /\ searchPc = "loop"
    /\ matchIdx > Len(matches)
    /\ searchRet' = [returned |-> TRUE, msgs |-> allThreadMessages,
                     isNil |-> allThreadMessages = <<>>, err |-> "nil"]
    /\ searchPc' = "returned"
    /\ UNCHANGED <<pipeVars, aggVars, frontVars, backVars, slackToken,
                   searchRound, firstRet, matches, matchIdx, visitedThreads,
                   allThreadMessages, calls>>

SearchNext == SearchMessages \/ SearchMatch \/ SearchReturn

SpecSearch == SearchInit /\ [][SearchNext]_vars

\* variant: the map of the call before is still there
VisitedKept(visited) == visited

\* visitedThreads := make(map[string]bool): what the map of a call holds
\* when the call begins, whatever an earlier call left in its own
VisitedAtEntry(visited) == {}

\* two calls in a row
RepeatInit ==
    /\ SearchInit
    /\ slackToken
    /\ Len(matches) <= MaxRepeatMatches

\* SearchThreads is called again, for the next retry attempt or for another
\* issue whose keyword search hits the same messages
SearchAgain ==
    /\ searchPc = "returned"
    /\ searchRound = 1
    /\ searchRound' = 2
    /\ firstRet' = searchRet
    /\ searchRet' = NoSearchReturn
    /\ searchPc' = "search"
    /\ matchIdx' = 0
    /\ visitedThreads' = VisitedAtEntry(visitedThreads)
    /\ allThreadMessages' = <<>>
    /\ calls' = <<>>
    /\ UNCHANGED <<pipeVars, aggVars, frontVars, backVars, slackToken,
                   matches>>

RepeatNext == SearchMessages \/ SearchMatch \/ SearchReturn \/ SearchAgain

SpecRepeat == RepeatInit /\ [][RepeatNext]_vars

\* ---------------------------------------------- the CLI: selectTopIssues

\* similarities the model answers with: below, at and above 0.5
CliScores == {40, 50, 90}

CliScoreLists == UNION {[1..n -> CliScores] : n \in 0..MaxCliIssues}

\* selectTopIssues is called with one issue per score; SLACK_API_TOKEN is set
\* or not
CliInit ==
    /\ PipeIdle
    /\ BackIdle
    /\ AggIdle
    /\ SearchIdle
    /\ FmtIdle
    /\ HdlIdle
    /\ cliToken \in BOOLEAN
    /\ cliScores \in CliScoreLists
    /\ cliPc = "loop"
    /\ cliIdx = 1
    /\ cliConvIssues = <<>>
    /\ cliThreads = NoThreads
    /\ cliCalls = <<>>
    /\ cliRet = NoReturn

\* variant: the token is never found missing
TokenMissingNever(token) == FALSE

\* searchThreads: if token == "" { return nil, nil }
TokenMissing(token) == ~token

\* what searchThreads can come back with: nothing was searched, or the search
\* (the loop of Slack.SearchThreads above) failed, found nothing or found a
\* thread
SearchOutcomes(token) ==
    IF TokenMissing(token) THEN {"disabled"} ELSE {"error", "none", "threads"}

\* formattedSearchThreads: strings.Join over no thread is ""
Formatted(found) == IF found = "threads" THEN "threads" ELSE ""

CliCall(op, issue, context, res) ==
    [op |-> op, issue |-> issue, context |-> context, res |-> res]

\* variant: a similarity of exactly 0.5 is dropped too
DroppedAtThreshold(similarity) == similarity <= CliThreshold

\* if similarity.Similarity < 0.5 { continue }
Dropped(similarity) == similarity < CliThreshold

\* variant: everything that was kept is returned
CliTopAll(sorted) == sorted

\* if len(convIssues) < 3 { return convIssues, nil }; return convIssues[:3], nil
CliTop(sorted) ==
    IF Len(sorted) < CliTopK THEN sorted ELSE SubSeq(sorted, 1, CliTopK)

\* return nil, err
CliFail == [returned |-> TRUE, list |-> <<>>, err |-> TRUE, isNil |-> TRUE]

\* one iteration of for i := range issues: the thread search, the similarity
\* request and its decoding, the threshold and the append
CliIssue ==
    /\ cliPc = "loop"
    /\ cliIdx <= Len(cliScores)
    /\ \E found \in SearchOutcomes(cliToken) :
         LET searched == IF found = "disabled" THEN <<>>
                         ELSE <<CliCall("search", cliIdx, "", found)>>
             slackThreadMessages == Formatted(found)
         IN  /\ cliThreads' = [called |-> TRUE,
                               n |-> IF found = "threads" THEN 1 ELSE 0,
                               err |-> found = "error",
                               isNil |-> found # "threads"]
             /\ IF found = "error"
                THEN /\ cliCalls' = cliCalls \o searched
                     /\ cliRet' = CliFail
                     /\ cliPc' = "returned"
                     /\ UNCHANGED <<cliIdx, cliConvIssues>>
                ELSE \E res \in {"error", "undecodable", "ok"} :
                       /\ cliCalls' = cliCalls \o searched \o
                            <<CliCall("similarity", cliIdx, slackThreadMessages, res)>>
                       /\ IF res # "ok"
                          THEN /\ cliRet' = CliFail
                               /\ cliPc' = "returned"
                               /\ UNCHANGED <<cliIdx, cliConvIssues>>
                          ELSE /\ cliIdx' = cliIdx + 1
                               /\ cliConvIssues' =
                                    IF Dropped(cliScores[cliIdx]) THEN cliConvIssues
                                    ELSE Append(cliConvIssues,
                                                [ID |-> cliIdx,
                                                 Similarity |-> cliScores[cliIdx],
                                                 SlackThread |-> slackThreadMessages])
                               /\ UNCHANGED <<cliPc, cliRet>>
    /\ UNCHANGED <<pipeVars, aggVars, srchVars, backVars, fmtVars, hdlVars,
                   cliToken, cliScores>>

\* sort.Slice(convIssues, ...) and the cut to three
CliReturn ==
    /\ cliPc = "loop"
    /\ cliIdx > Len(cliScores)
    /\ cliRet' = [returned |-> TRUE,
                  list |-> CliTop(IF cliConvIssues = <<>> THEN <<>>
                                  ELSE SortSlice(cliConvIssues)),
                  err |-> FALSE, isNil |-> FALSE]
    /\ cliPc' = "returned"
    /\ UNCHANGED <<pipeVars, aggVars, srchVars, backVars, fmtVars, hdlVars,
                   cliToken, cliScores, cliIdx, cliConvIssues, cliThreads,
                   cliCalls>>

CliNext == CliIssue \/ CliReturn

SpecCli == CliInit /\ [][CliNext]_vars

\* ------------------------------------------------------------ formatIssue
\* (src/domain/service/select_top_issue.go and src/unnamed/part_005)

\* A text is the sequence of its characters; a literal of the code that holds
\* no "@" is one element.
Chars == {"a", "@"}

\* the fullwidth commercial at, U+FF20
FullwidthAt == "U+FF20"

Texts == UNION {[1..n -> Chars] : n \in 0..MaxTextLen}

\* ADFContent, as the texts of its text nodes ("" for a node without text)
ADFContents == UNION {[1..n -> Texts] : n \in 0..MaxNodes}

Comments == [author : Texts, body : ADFContents]

CommentLists == UNION {[1..n -> Comments] : n \in 0..MaxComments}

Issues == [summary : Texts, description : ADFContents, comments : CommentLists]

\* strings.Join
RECURSIVE Join(_, _)
Join(elems, sep) ==
    IF Len(elems) = 0 THEN <<>>
    ELSE IF Len(elems) = 1 THEN elems[1]
    ELSE elems[1] \o sep \o Join(Tail(elems), sep)

NonEmptyText(text) == text # <<>>

\* extractTextFromADF: the non-empty node texts joined by a space
ExtractTextFromADF(adf) == Join(SelectSeq(adf, NonEmptyText), <<" ">>)

\* Issue.GetDescription
GetDescription(issue) == ExtractTextFromADF(issue.description)

\* what fmt.Sprintf makes of a comment whose text is not empty
CommentText(comment) ==
    <<"author: ">> \o comment.author \o <<"\ncreated: ", "created", "\nbody: ">>
        \o ExtractTextFromADF(comment.body)

HasText(comment) == ExtractTextFromADF(comment.body) # <<>>

\* Issue.GetComments: comments without text are left out
GetComments(issue) ==
    LET kept == SelectSeq(issue.comments, HasText)
    IN  [k \in 1..Len(kept) |-> CommentText(kept[k])]

\* strings.ReplaceAll for a one-character old
ReplaceAll(s, old, new) == [k \in 1..Len(s) |-> IF s[k] = old THEN new ELSE s[k]]

\* formatIssue: only the comments go through strings.ReplaceAll
FormatIssue(issue) ==
    LET issueComments == GetComments(issue)
        formattedComments ==
            [k \in 1..Len(issueComments) |->
                <<"### ">> \o ReplaceAll(issueComments[k], "@", FullwidthAt)]
    IN  <<"## summary\n">> \o issue.summary
            \o <<"\n## detail\n">> \o GetDescription(issue)
            \o <<"\n## comments\n">> \o Join(formattedComments, <<"\n\n">>)

\* formatIssue is about to be called with an issue
FmtInit ==
    /\ PipeIdle
    /\ BackIdle
    /\ AggIdle
    /\ SearchIdle
    /\ CliIdle
    /\ HdlIdle
    /\ fmtIssue \in Issues
    /\ fmtPc = "call"
    /\ fmtOut = <<>>

FmtRun ==
    /\ fmtPc = "call"
    /\ fmtOut' = FormatIssue(fmtIssue)
    /\ fmtPc' = "done"
    /\ UNCHANGED <<pipeVars, aggVars, srchVars, backVars, cliVars, hdlVars,
                   fmtIssue>>

FmtNext == FmtRun

SpecFormat == FmtInit /\ [][FmtNext]_vars

\* --------------------------------------------------------- handleMention
\* (src/handler/handler.go)

\* a call or a post of handleMention and whether it succeeded
HdlEntry(op, arg, ok) == [op |-> op, arg |-> arg, ok |-> ok]

\* h.postError: one PostEphemeral, whose failure is only logged
PostError(log, ok) == Append(log, HdlEntry("postError", 0, ok))

\* a mention arrives: with or without text, with or without SLACK_CHANNEL
HdlInit ==
    /\ PipeIdle
    /\ BackIdle
    /\ AggIdle
    /\ SearchIdle
    /\ CliIdle
    /\ FmtIdle
    /\ hdlPc = "mention"
    /\ hdlEmpty \in BOOLEAN
    /\ hdlChannelSet \in BOOLEAN
    /\ hdlTries = 0
    /\ lastError = FALSE
    /\ hdlIssues = 0
    /\ selectedIssues = 0
    /\ hdlIdx = 0
    /\ hdlLog = <<>>

\* if messageText == "" { h.postError(...); return }
HdlMention ==
    /\ hdlPc = "mention"
    /\ IF hdlEmpty
       THEN /\ \E ok \in BOOLEAN : hdlLog' = PostError(hdlLog, ok)
            /\ hdlPc' = "returned"
       ELSE /\ hdlPc' = IF hdlChannelSet THEN "channel" ELSE "start"
            /\ UNCHANGED hdlLog
    /\ UNCHANGED <<pipeVars, aggVars, srchVars, backVars, cliVars, fmtVars,
                   hdlEmpty, hdlChannelSet, hdlTries, lastError, hdlIssues,
                   selectedIssues, hdlIdx>>

\* if os.Getenv("SLACK_CHANNEL") != "": GetChannelInfo fails (logged, return),
\* names another channel (postError, return) or the allowed one
HdlChannel ==
    /\ hdlPc = "channel"
    /\ \E info \in {"error", "other", "allowed"} :
         LET looked == Append(hdlLog, HdlEntry("channelInfo", 0, info # "error")) IN
         IF info = "other"
         THEN /\ \E ok \in BOOLEAN : hdlLog' = PostError(looked, ok)
              /\ hdlPc' = "returned"
         ELSE /\ hdlLog' = looked
              /\ hdlPc' = IF info = "error" THEN "returned" ELSE "start"
    /\ UNCHANGED <<pipeVars, aggVars, srchVars, backVars, cliVars, fmtVars,
                   hdlEmpty, hdlChannelSet, hdlTries, lastError, hdlIssues,
                   selectedIssues, hdlIdx>>

\* 1. the start message; if the post fails: logged, return
HdlStart ==
    /\ hdlPc = "start"
    /\ \E ok \in BOOLEAN :
         /\ hdlLog' = Append(hdlLog, HdlEntry("start", 0, ok))
         /\ hdlPc' = IF ok THEN "retry" ELSE "returned"
    /\ UNCHANGED <<pipeVars, aggVars, srchVars, backVars, cliVars, fmtVars,
                   hdlEmpty, hdlChannelSet, hdlTries, lastError, hdlIssues,
                   selectedIssues, hdlIdx>>

\* variant: the result count is posted whatever retry.Retry returned
AfterQueryIgnoresError(err) == "count"

\* if err != nil { h.postError(...); return }
AfterQuery(err) == IF err # "nil" THEN "retryFailed" ELSE "count"

\* one round of retry.Retry(3, 1s, fn): GenerateJiraQuery, the post of the
\* query, FetchIssues; err names the step that failed.  Attempt k fetches the
\* issues k.
HdlAttempt ==
    /\ hdlPc = "retry"
    /\ \E err \in {"generate", "post", "fetch", "nil"} :
         LET k == hdlTries + 1
             generated == <<HdlEntry("generate", k, err # "generate")>>
             queried == IF err = "generate" THEN <<>>
                        ELSE <<HdlEntry("query", k, err # "post")>>
             fetched == IF err \in {"generate", "post"} THEN <<>>
                        ELSE <<HdlEntry("fetch", k, err = "nil")>>
         IN  /\ hdlTries' = k
             /\ hdlLog' = hdlLog \o generated \o queried \o fetched
             /\ lastError' = (lastError \/ err = "fetch")
             /\ hdlIssues' = IF err = "nil" THEN k ELSE hdlIssues
             /\ hdlPc' = IF RetryStops(err, HdlRetries - k) THEN AfterQuery(err)
                         ELSE hdlPc
    /\ UNCHANGED <<pipeVars, aggVars, srchVars, backVars, cliVars, fmtVars,
                   hdlEmpty, hdlChannelSet, selectedIssues, hdlIdx>>

\* h.postError after the last failed attempt
HdlRetryFailed ==
    /\ hdlPc = "retryFailed"
    /\ \E ok \in BOOLEAN : hdlLog' = PostError(hdlLog, ok)
    /\ hdlPc' = "returned"
    /\ UNCHANGED <<pipeVars, aggVars, srchVars, backVars, cliVars, fmtVars,
                   hdlEmpty, hdlChannelSet, hdlTries, lastError, hdlIssues,
                   selectedIssues, hdlIdx>>

\* 5. the result count; if the post fails: logged, return
HdlCount ==
    /\ hdlPc = "count"
    /\ \E ok \in BOOLEAN :
         /\ hdlLog' = Append(hdlLog, HdlEntry("count", hdlIssues, ok))
         /\ hdlPc' = IF ok THEN "select" ELSE "returned"
    /\ UNCHANGED <<pipeVars, aggVars, srchVars, backVars, cliVars, fmtVars,
                   hdlEmpty, hdlChannelSet, hdlTries, lastError, hdlIssues,
                   selectedIssues, hdlIdx>>

\* 6. svc.SelectTopIssues(messageText, issues, channelID): an error (postError,
\* return) or the selected issues
HdlSelect ==
    /\ hdlPc = "select"
    /\ \E n \in {0 - 1} \cup 0..MaxSelected :
         LET called == Append(hdlLog, HdlEntry("select", hdlIssues, n >= 0)) IN
         IF n < 0
         THEN /\ \E ok \in BOOLEAN : hdlLog' = PostError(called, ok)
              /\ hdlPc' = "returned"
              /\ UNCHANGED selectedIssues
         ELSE /\ hdlLog' = called
              /\ selectedIssues' = n
              /\ hdlPc' = "summary"
    /\ UNCHANGED <<pipeVars, aggVars, srchVars, backVars, cliVars, fmtVars,
                   hdlEmpty, hdlChannelSet, hdlTries, lastError, hdlIssues,
                   hdlIdx>>

\* 7. h.openAI.GenerateSummary(selectedIssues): an error (postError, return)
\* or on to the loop over the selected issues
HdlSummary ==
    /\ hdlPc = "summary"
    /\ \E done \in BOOLEAN :
         LET called == Append(hdlLog, HdlEntry("summary", selectedIssues, done)) IN
         IF done
         THEN /\ hdlLog' = called
              /\ hdlPc' = "results"
              /\ hdlIdx' = 1
         ELSE /\ \E ok \in BOOLEAN : hdlLog' = PostError(called, ok)
              /\ hdlPc' = "returned"
              /\ UNCHANGED hdlIdx
    /\ UNCHANGED <<pipeVars, aggVars, srchVars, backVars, cliVars, fmtVars,
                   hdlEmpty, hdlChannelSet, hdlTries, lastError, hdlIssues,
                   selectedIssues>>

\* for _, issue := range selectedIssues: one message per issue, a failed post
\* is only logged; after the last one handleMention returns
HdlResult ==
    /\ hdlPc = "results"
    /\ IF hdlIdx <= selectedIssues
       THEN /\ \E ok \in BOOLEAN :
                 hdlLog' = Append(hdlLog, HdlEntry("result", hdlIdx, ok))
            /\ hdlIdx' = hdlIdx + 1
            /\ UNCHANGED hdlPc
       ELSE /\ hdlPc' = "returned"
            /\ UNCHANGED <<hdlLog, hdlIdx>>
    /\ UNCHANGED <<pipeVars, aggVars, srchVars, backVars, cliVars, fmtVars,
                   hdlEmpty, hdlChannelSet, hdlTries, lastError, hdlIssues,
                   selectedIssues>>

HdlNext ==
    \/ HdlMention
    \/ HdlChannel
    \/ HdlStart
    \/ HdlAttempt
    \/ HdlRetryFailed
    \/ HdlCount
    \/ HdlSelect
    \/ HdlSummary
    \/ HdlResult

SpecHandler == HdlInit /\ [][HdlNext]_vars

\* ------------------------------------------------------------ wait-group variant
\* src/unnamed/part_006: SelectTopIssues starts one goroutine per issue, with
\* no semaphore and no notifications; each goroutine sends one processResult
\* on resultCh, and the results are collected in the order they were sent.

WgScores == {20, 90}

\* how the remote calls of one issue end: the first `fails' attempts return
\* an error, a later attempt gets the similarity
WgPlans ==
    {[fails |-> f, similarity |-> sc] : f \in 0..MaxFails, sc \in WgScores}
        \cup {[fails |-> RetryCount, similarity |-> 0]}

WgTasks == 1..wgIssues

WgInit ==
    /\ PipeIdle
    /\ AggIdle
    /\ SearchIdle
    /\ FrontIdle
    /\ TkIdle
    /\ CvIdle
    /\ wgIssues \in 0..MaxWgIssues
    /\ wgPlan \in [1..wgIssues -> WgPlans]
    /\ wgMain = "start"
    /\ wgSpawned = 0
    /\ wgPc = [i \in 1..wgIssues |-> "new"]
    /\ wgTries = [i \in 1..wgIssues |-> 0]
    /\ wgResult = [i \in 1..wgIssues |-> EmptyResult]
    /\ wgErr = [i \in 1..wgIssues |-> FALSE]
    /\ resultCh = <<>>
    /\ wgRet = NoReturn

\* if len(issues) == 0 { return []model.Result{}, nil }
WgEmptyInput ==
    /\ wgMain = "start"
    /\ wgIssues = 0
    /\ wgMain' = "returned"
    /\ wgRet' = [returned |-> TRUE, list |-> <<>>, err |-> FALSE, isNil |-> FALSE]
    /\ UNCHANGED <<pipeVars, aggVars, srchVars, frontVars, tkVars, cvVars,
                   wgIssues, wgPlan, wgSpawned, wgPc, wgTries, wgResult,
                   wgErr, resultCh>>

\* one iteration of the loop: wg.Add(1); go func(idx, iss)
WgSpawn ==
    /\ wgMain = "start"
    /\ wgSpawned < wgIssues
    /\ wgSpawned' = wgSpawned + 1
    /\ wgPc' = [wgPc EXCEPT ![wgSpawned + 1] = "retry"]
    /\ wgMain' = IF wgSpawned + 1 = wgIssues THEN "wait" ELSE "start"
    /\ UNCHANGED <<pipeVars, aggVars, srchVars, frontVars, tkVars, cvVars,
                   wgIssues, wgPlan, wgTries, wgResult, wgErr, resultCh,
                   wgRet>>

\* one call of the closure by retry.Retry(3, ...), and what Retry does next
WgAttempt(i) ==
    /\ wgPc[i] = "retry"
    /\ LET k == wgTries[i] + 1
           err == IF k <= wgPlan[i].fails THEN "remote" ELSE "nil"
       IN  /\ wgResult' = IF err = "nil"
                          THEN [wgResult EXCEPT
                                  ![i] = AttemptResult(i, wgPlan[i].similarity)]
                          ELSE wgResult
           /\ IF RetryStops(err, RetryCount - k)
              THEN /\ wgErr' = [wgErr EXCEPT ![i] = err # "nil"]
                   /\ wgTries' = [wgTries EXCEPT ![i] = 0]
                   /\ wgPc' = [wgPc EXCEPT ![i] = "send"]
              ELSE /\ wgTries' = [wgTries EXCEPT ![i] = k]
                   /\ UNCHANGED <<wgErr, wgPc>>
    /\ UNCHANGED <<pipeVars, aggVars, srchVars, frontVars, tkVars, cvVars,
                   wgIssues, wgPlan, wgMain, wgSpawned, resultCh, wgRet>>

\* resultCh <- processResult{result, idx, processingErr}; deferred wg.Done()
WgSend(i) ==
    /\ wgPc[i] = "send"
    /\ Len(resultCh) < wgIssues
    /\ resultCh' = Append(resultCh,
                          [result |-> wgResult[i], index |-> i, err |-> wgErr[i]])
    /\ wgPc' = [wgPc EXCEPT ![i] = "done"]
    /\ UNCHANGED <<pipeVars, aggVars, srchVars, frontVars, tkVars, cvVars,
                   wgIssues, wgPlan, wgMain, wgSpawned, wgTries, wgResult,
                   wgErr, wgRet>>

\* wg.Wait(); close(resultCh)
WgWait ==
    /\ wgMain = "wait"
    /\ \A i \in WgTasks : wgPc[i] = "done"
    /\ wgMain' = "collect"
    /\ UNCHANGED <<pipeVars, aggVars, srchVars, frontVars, tkVars, cvVars,
                   wgIssues, wgPlan, wgSpawned, wgPc, wgTries, wgResult,
                   wgErr, resultCh, wgRet>>

WgFailed(res) == res.err

WgKept(res) == ~res.err /\ res.result.ID # 0

\* if len(errors) > 0 && len(convIssues) == 0
WgFails(errors, convIssues) == Len(errors) > 0 /\ Len(convIssues) = 0

\* the range loop over the closed channel, the sort and the cut
WgCollect(ch) ==
    LET errors == SelectSeq(ch, WgFailed)
        kept == SelectSeq(ch, WgKept)
        convIssues == [j \in 1..Len(kept) |-> kept[j].result]
        sorted == IF Len(convIssues) = 0 THEN <<>> ELSE SortSlice(convIssues)
    IN  IF WgFails(errors, convIssues)
        THEN [returned |-> TRUE, list |-> <<>>, err |-> TRUE, isNil |-> TRUE]
        ELSE [returned |-> TRUE,
              list |-> IF Len(sorted) < TopK THEN sorted
                       ELSE SubSeq(sorted, 1, TopK),
              err |-> FALSE, isNil |-> Len(convIssues) = 0]

WgReturn ==
    /\ wgMain = "collect"
    /\ wgRet' = WgCollect(resultCh)
    /\ resultCh' = <<>>
    /\ wgMain' = "returned"
    /\ UNCHANGED <<pipeVars, aggVars, srchVars, frontVars, tkVars, cvVars,
                   wgIssues, wgPlan, wgSpawned, wgPc, wgTries, wgResult,
                   wgErr>>

WgNext ==
    \/ WgEmptyInput
    \/ WgSpawn
    \/ \E i \in WgTasks : WgAttempt(i)
    \/ \E i \in WgTasks : WgSend(i)
    \/ WgWait
    \/ WgReturn

SpecWg == WgInit /\ [][WgNext]_vars

\* ------------------------------------------------- notificationWorker, timed
\* The worker alone, with a clock: time advances in tenths of a second and the
\* ticker puts a tick into ticker.C every TickPeriod unless one is waiting
\* there already. The worker never lags behind the clock: time advances only
\* when the worker has nothing it can do.

TickPeriod == 5     \* time.NewTicker(500 * time.Millisecond)

\* the worker has started and has just created the ticker
TkInit ==
    /\ PipeIdle
    /\ AggIdle
    /\ SearchIdle
    /\ FrontIdle
    /\ WgIdle
    /\ CvIdle
    /\ tkNow = 0
    /\ tickC = FALSE
    /\ tkQueued = 0
    /\ tkSent = 0
    /\ tkPc = "recv"
    /\ tkLastPost = NoPost
    /\ tkGap = NoPost

\* the worker can take a step without waiting
TkReady == (tkPc = "recv" /\ tkQueued > 0) \/ (tkPc = "tick" /\ tickC)

\* a tenth of a second passes; on a multiple of the period the ticker fires
\* (the tick is dropped when ticker.C still holds one)
TkTock ==
    /\ ~TkReady
    /\ tkNow < MaxTime
    /\ tkNow' = tkNow + 1
    /\ tickC' = (tickC \/ (tkNow + 1) % TickPeriod = 0)
    /\ UNCHANGED <<pipeVars, aggVars, srchVars, frontVars, wgVars, cvVars,
                   tkQueued, tkSent, tkPc, tkLastPost, tkGap>>

\* a task sends a notification: notifyCh <- notificationMessage{...}
TkArrive ==
    /\ tkSent < MaxMsgs
    /\ tkSent' = tkSent + 1
    /\ tkQueued' = tkQueued + 1
    /\ UNCHANGED <<pipeVars, aggVars, srchVars, frontVars, wgVars, cvVars,
                   tkNow, tickC, tkPc, tkLastPost, tkGap>>

\* case msg, ok := <-notifyCh
TkRecv ==
    /\ tkPc = "recv"
    /\ tkQueued > 0
    /\ tkQueued' = tkQueued - 1
    /\ tkPc' = "tick"
    /\ UNCHANGED <<pipeVars, aggVars, srchVars, frontVars, wgVars, cvVars,
                   tkNow, tickC, tkSent, tkLastPost, tkGap>>

\* <-ticker.C, then s.slackClient.PostMessage(...)
TkPost ==
    /\ tkPc = "tick"
    /\ tickC
    /\ tickC' = FALSE
    /\ tkGap' = IF tkLastPost = NoPost THEN NoPost ELSE tkNow - tkLastPost
    /\ tkLastPost' = tkNow
    /\ tkPc' = "recv"
    /\ UNCHANGED <<pipeVars, aggVars, srchVars, frontVars, wgVars, cvVars,
                   tkNow, tkQueued, tkSent>>

TkNext == TkTock \/ TkArrive \/ TkRecv \/ TkPost

SpecTicker == TkInit /\ [][TkNext]_vars

\* ------------------------------------------------ ConvertAllMentionsToSafe
\* Texts are sequences of characters; a character outside ASCII is one
\* element, as no ASCII pattern matches inside its bytes.

\* s[a:b] and s[a:]
Slice(s, a, b) == SubSeq(s, a + 1, b)

SliceFrom(s, a) == SubSeq(s, a + 1, Len(s))

MatchAt(s, substr, k) ==
    k + Len(substr) <= Len(s) /\ SubSeq(s, k + 1, k + Len(substr)) = substr

NotFound == 0 - 1

\* strings.Index(s, substr)
StringsIndex(s, substr) ==
    LET at == {k \in 0..Len(s) : MatchAt(s, substr, k)}
    IN  IF at = {} THEN NotFound ELSE CHOOSE k \in at : \A j \in at : k <= j

RECURSIVE StringsReplaceAll(_, _, _)
\* strings.ReplaceAll(s, old, new), old not empty
StringsReplaceAll(s, old, new) ==
    LET i == StringsIndex(s, old)
    IN  IF i = NotFound THEN s
        ELSE Slice(s, 0, i) \o new
                 \o StringsReplaceAll(SliceFrom(s, i + Len(old)), old, new)

HereToken == <<"<", "!", "h", "e", "r", "e", ">">>
ChannelToken == <<"<", "!", "c", "h", "a", "n", "n", "e", "l", ">">>
EveryoneToken == <<"<", "!", "e", "v", "e", "r", "y", "o", "n", "e", ">">>
UserOpen == <<"<", "@">>
SubteamOpen == <<"<", "!", "s", "u", "b", "t", "e", "a", "m", "^">>
MentionClose == <<">">>

\* the labels put before a name: a bracketed word and a fullwidth at
GroupLabel == <<"U+3010 group U+3011", FullwidthAt>>
UserLabel == <<"U+3010 user U+3011", FullwidthAt>>

\* the pieces the texts are made of
Pieces ==
    {SubteamOpen \o <<"G", "|">>, SubteamOpen \o <<"G">>, <<"<", "!", "h", "e">>,
     <<"r", "e", ">">>, MentionClose, UserOpen \o <<"U">>, <<"@">>,
     ChannelToken, EveryoneToken}

RECURSIVE Flatten(_)
Flatten(ps) == IF ps = <<>> THEN <<>> ELSE Head(ps) \o Flatten(Tail(ps))

CvTexts == {Flatten(ps) : ps \in UNION {[1..n -> Pieces] : n \in 0..MaxPieces}}

\* h.GetUserByID and h.GetUserPreferredName: an error, or the user's name
UserLookups ==
    {[err |-> TRUE, name |-> <<>>], [err |-> FALSE, name |-> <<"n">>],
     [err |-> FALSE, name |-> <<"n", "@">>]}

\* h.GetUserGroupByID: an error, or the group's Handle and Name
GroupLookups ==
    {[err |-> TRUE, Handle |-> <<>>, Name |-> <<>>],
     [err |-> FALSE, Handle |-> <<"h">>, Name |-> <<"n">>],
     [err |-> FALSE, Handle |-> <<>>, Name |-> <<"n">>],
     [err |-> FALSE, Handle |-> <<>>, Name |-> <<>>]}

CvInit ==
    /\ PipeIdle
    /\ AggIdle
    /\ SearchIdle
    /\ FrontIdle
    /\ WgIdle
    /\ TkIdle
    /\ cvText \in CvTexts
    /\ cvPc = "special"
    /\ cvResult = cvText
    /\ cvStart = 0

\* 1. the three special mentions are replaced
CvSpecial ==
    /\ cvPc = "special"
    /\ cvResult' =
         StringsReplaceAll(
             StringsReplaceAll(
                 StringsReplaceAll(cvResult, HereToken,
                                   GroupLabel \o <<"h", "e", "r", "e">>),
                 ChannelToken, GroupLabel \o <<"c", "h", "a", "n", "n", "e", "l">>),
             EveryoneToken, GroupLabel \o <<"e", "v", "e", "r", "y", "o", "n", "e">>)
    /\ cvPc' = "user"
    /\ cvStart' = 0
    /\ UNCHANGED <<pipeVars, aggVars, srchVars, frontVars, wgVars, tkVars, cvText>>

\* where the next mention opened by `open' begins and ends, from cvStart on
MentionStart(open) ==
    LET i == StringsIndex(SliceFrom(cvResult, cvStart), open)
    IN  IF i = NotFound THEN NotFound ELSE i + cvStart

MentionEnd(mentionStart) ==
    LET i == StringsIndex(SliceFrom(cvResult, mentionStart), MentionClose)
    IN  IF i = NotFound THEN NotFound ELSE i + mentionStart

\* the loop ends: no further mention, or a mention that is not closed
LoopBreaks(open) ==
    MentionStart(open) = NotFound \/ MentionEnd(MentionStart(open)) = NotFound

\* result = result[:mentionStart] + replacement + result[mentionEnd+1:]
Replaced(mentionStart, mentionEnd, replacement) ==
    Slice(cvResult, 0, mentionStart) \o replacement
        \o SliceFrom(cvResult, mentionEnd + 1)

\* start = mentionStart + len(replacement)
StartAfter(mentionStart, replacement) == mentionStart + Len(replacement)

\* 2. one iteration of the loop of convertUserMentions
CvUser ==
    /\ cvPc = "user"
    /\ IF LoopBreaks(UserOpen)
       THEN /\ cvPc' = "group"
            /\ cvStart' = 0
            /\ UNCHANGED cvResult
       ELSE LET mentionStart == MentionStart(UserOpen)
                mentionEnd == MentionEnd(mentionStart)
            IN  \E user \in UserLookups :
                  LET replacement == UserLabel \o user.name IN
                  /\ cvResult' = IF user.err THEN cvResult
                                 ELSE Replaced(mentionStart, mentionEnd, replacement)
                  /\ cvStart' = IF user.err THEN mentionEnd + 1
                                ELSE StartAfter(mentionStart, replacement)
                  /\ UNCHANGED cvPc
    /\ UNCHANGED <<pipeVars, aggVars, srchVars, frontVars, wgVars, tkVars, cvText>>

\* the name after the "|" of a group mention, "" when there is none
NameInMention(mentionContent) ==
    LET pipeIndex == StringsIndex(mentionContent, <<"|">>)
    IN  IF pipeIndex = NotFound THEN <<>>
        ELSE SliceFrom(mentionContent, pipeIndex + 1)

\* the name the lookup gives: the Handle, else the Name, else ""
NameOfGroup(group) ==
    IF group.err THEN <<>>
    ELSE IF group.Handle # <<>> THEN group.Handle
    ELSE group.Name

\* 3. one iteration of the loop of convertGroupMentions
CvGroup ==
    /\ cvPc = "group"
    /\ IF LoopBreaks(SubteamOpen)
       THEN /\ cvPc' = "remaining"
            /\ cvStart' = 0
            /\ UNCHANGED cvResult
       ELSE LET mentionStart == MentionStart(SubteamOpen)
                mentionEnd == MentionEnd(mentionStart)
                mentionContent ==
                    Slice(cvResult, mentionStart + Len(SubteamOpen), mentionEnd)
                named == NameInMention(mentionContent)
            IN  \E group \in IF named = <<>> THEN GroupLookups
                             ELSE {CHOOSE g \in GroupLookups : g.err} :
                  LET groupName == IF named = <<>> THEN NameOfGroup(group)
                                   ELSE named
                      replacement == GroupLabel \o groupName
                  IN  /\ cvResult' =
                           IF groupName = <<>> THEN cvResult
                           ELSE Replaced(mentionStart, mentionEnd, replacement)
                      /\ cvStart' = IF groupName = <<>> THEN mentionEnd + 1
                                    ELSE StartAfter(mentionStart, replacement)
                      /\ UNCHANGED cvPc
    /\ UNCHANGED <<pipeVars, aggVars, srchVars, frontVars, wgVars, tkVars, cvText>>

\* 4. one iteration of the loop of convertRemainingMentions
CvRemaining ==
    /\ cvPc = "remaining"
    /\ IF LoopBreaks(UserOpen)
       THEN /\ cvPc' = "at"
            /\ cvStart' = 0
            /\ UNCHANGED cvResult
       ELSE LET mentionStart == MentionStart(UserOpen)
                mentionEnd == MentionEnd(mentionStart)
                mentionContent == Slice(cvResult, mentionStart + Len(UserOpen),
                                        mentionEnd)
                replacement == <<FullwidthAt>> \o mentionContent
            IN  /\ cvResult' = Replaced(mentionStart, mentionEnd, replacement)
                /\ cvStart' = StartAfter(mentionStart, replacement)
                /\ UNCHANGED cvPc
    /\ UNCHANGED <<pipeVars, aggVars, srchVars, frontVars, wgVars, tkVars, cvText>>

\* 5. every "@" left is replaced by the fullwidth one, and the text returned
CvAt ==
    /\ cvPc = "at"
    /\ cvResult' = StringsReplaceAll(cvResult, <<"@">>, <<FullwidthAt>>)
    /\ cvPc' = "done"
    /\ UNCHANGED <<pipeVars, aggVars, srchVars, frontVars, wgVars, tkVars, cvText,
                   cvStart>>

CvNext == CvSpecial \/ CvUser \/ CvGroup \/ CvRemaining \/ CvAt

SpecConvert == CvInit /\ [][CvNext]_vars

\* ------------------------------------------------------------ the claims

\* tasks past sem.Acquire and before sem.Release
InFlight ==
    {i \in Tasks : pc[i] \in {"retry", "notifyError", "notifyComplete", "store",
                              "release"}}

\* attempts the task has made so far (while it runs)
Tries(i) == RetryCount - attemptsLeft[i]

\* the task left the retry loop and has not returned
PastRetry(i) == pc[i] \in {"notifyError", "notifyComplete", "store", "release"}

Count(seq, x) == Cardinality({k \in 1..Len(seq) : seq[k] = x})

IsExcludedMarker(r) == r.ID = 0 /\ r.Similarity = 0

\* C1: semaphore variant: each slot results[i] is written at most once and only
\* by task i, and once g.Wait has returned (so before the results are
\* collected) every one of the N slots has been written exactly once.
C1_SlotsWrittenOnce ==
    variant = "sem" =>
        /\ \A i \in Tasks :
             /\ Len(writes[i]) <= 1
             /\ \A k \in 1..Len(writes[i]) : writes[i][k] = i
        /\ mainPc \in {"notifyWait", "aggregate", "fail", "returned"} =>
             \A i \in Tasks : writes[i] = <<i>>

C1_Witness ==
    /\ variant = "sem"
    /\ mainPc = "aggregate"
    /\ nIssues >= 2
    /\ \A i \in Tasks : writes[i] = <<i>>

\* C2: semaphore variant: at most 5 tasks are past sem.Acquire and before
\* sem.Release, also when there are more than 5 candidates.
C2_AtMostFiveInFlight ==
    variant = "sem" => Cardinality(InFlight) <= 5

C2_Witness ==
    /\ variant = "sem"
    /\ Cardinality(InFlight) = 5
    /\ \E i \in Tasks : pc[i] = "acquire"

\* C3: semaphore variant: the permits held are exactly the tasks between
\* acquire and exit, whatever their outcome, and none is held when
\* SelectTopIssues returns.
C3_PermitsMatchTasks ==
    variant = "sem" =>
        /\ sem = Cardinality(InFlight)
        /\ ret.returned => sem = 0

C3_Witness ==
    /\ variant = "sem"
    /\ ret.returned
    /\ sem = 0
    /\ \E i, j \in Tasks : scored[i] = NoScore /\ scored[j] = 20

\* C4: a task is treated as failed only after 3 failed attempts; a task whose
\* third attempt succeeded carries the result decided by that attempt's
\* similarity (the candidate's ID and similarity when >= 0.3, the empty result
\* below), has emitted no error notification, and in the semaphore variant
\* has stored exactly that result when it is about to return.
C4_ThirdAttemptDecides ==
    \A i \in Tasks :
        /\ PastRetry(i) /\ retryErr[i] # "nil" => Tries(i) = 3 /\ scored[i] = NoScore
        /\ PastRetry(i) /\ retryErr[i] = "nil" /\ Tries(i) = 3 =>
             /\ scored[i] # NoScore
             /\ result[i] = IF scored[i] >= 30
                            THEN [ID |-> i, Similarity |-> scored[i]]
                            ELSE EmptyResult
             /\ Count(emitted[i], "error") = 0
             /\ pc[i] # "notifyError"
             /\ pc[i] = "release" => results[i] = result[i]

C4_Witness ==
    \E i \in Tasks :
        /\ pc[i] = "release"
        /\ retryErr[i] = "nil"
        /\ Tries(i) = 3
        /\ results[i] = [ID |-> i, Similarity |-> 90]

\* C5: a task whose attempts all failed stores the excluded marker and emits
\* exactly one error notification (both variants).
C5_PermanentFailure ==
    \A i \in Tasks :
        pc[i] = "done" /\ scored[i] = NoScore =>
            /\ IsExcludedMarker(results[i])
            /\ Count(emitted[i], "error") = 1

C5_Witness ==
    \E i \in Tasks :
        /\ pc[i] = "done"
        /\ scored[i] = NoScore
        /\ IsExcludedMarker(results[i])
        /\ Count(emitted[i], "error") = 1

\* what the slot of candidate i holds if the candidate did not fail
SlotOf(i) ==
    IF scored[i] # NoScore /\ scored[i] >= 30
    THEN [ID |-> i, Similarity |-> scored[i]]
    ELSE EmptyResult

\* C6: permanent failures never abort the batch (both variants): a run over at
\* least one candidate returns a nil error, every candidate was evaluated to
\* its end (scored, or failed with its error notification), and the returned
\* list is the aggregation of the candidates that did not fail.
C6_FailuresDoNotAbort ==
    ret.returned /\ nIssues >= 1 =>
        /\ ~ret.err
        /\ \A i \in Tasks :
             /\ pc[i] = "done"
             /\ scored[i] # NoScore \/ Count(emitted[i], "error") = 1
        /\ ret.list = Aggregate([i \in Tasks |-> SlotOf(i)])

C6_Witness ==
    /\ ret.returned
    /\ ~ret.err
    /\ \E i, j \in Tasks : scored[i] = NoScore /\ scored[j] = 90
    /\ Len(ret.list) = 1

\* C7: once every task has finished, each slot is the excluded marker or holds
\* its candidate's ID with a similarity >= 0.3; every element of the returned
\* list has similarity >= 0.3 and belongs to a candidate that scored >= 0.3.
C7_SlotShapes ==
    /\ mainPc \in {"wait", "notifyWait", "aggregate", "returned"} /\ AllDone =>
         \A i \in 1..Len(results) :
            \/ IsExcludedMarker(results[i])
            \/ results[i].ID = i /\ results[i].Similarity >= 30
    /\ ret.returned =>
         \A k \in 1..Len(ret.list) :
            /\ ret.list[k].Similarity >= 30
            /\ ret.list[k].ID \in Tasks
            /\ scored[ret.list[k].ID] >= 30

C7_Witness ==
    /\ ret.returned
    /\ nIssues = 2
    /\ \E i, j \in Tasks :
         /\ scored[i] = 20 /\ IsExcludedMarker(results[i])
         /\ scored[j] = 30 /\ results[j] = [ID |-> j, Similarity |-> 30]
    /\ Len(ret.list) = 1

\* the slots of a slice that are not excluded
Kept(rs) == {i \in 1..Len(rs) : rs[i].ID # 0}

Sims(out) == [k \in 1..Len(out) |-> out[k].Similarity]

C9_StableTies ==
    aggPc # "run" =>
        LET out == aggOut[1] IN
        /\ \A k, l \in 1..Len(out) :
              k < l /\ out[k].Similarity = out[l].Similarity => out[k].ID < out[l].ID
        /\ \A i \in Kept(aggIn) :
              (\A k \in 1..Len(out) : out[k].ID # i) =>
                 \A k \in 1..Len(out) :
                    aggIn[i].Similarity = out[k].Similarity => out[k].ID < i

C11_EmptyInput ==
    nIssues = 0 =>
        /\ mainPc \in {"start", "returned"}
        /\ spawned = 0
        /\ workerPc = "unstarted"
        /\ sem = 0
        /\ sent = 0 /\ notifyCh = <<>> /\ postCount = 0 /\ ~postFailed
        /\ closes = 0
        /\ results = <<>>
        /\ ret.returned => ret.list = <<>> /\ ~ret.err /\ ~ret.isNil

C11_Witness ==
    /\ nIssues = 0
    /\ ret.returned
    /\ ret.list = <<>>
    /\ ~ret.isNil
    /\ workerPc = "unstarted"

\* C12: when every one of N >= 1 candidates ends excluded (scored below 0.3 or
\* failed all its attempts), SelectTopIssues returns an empty non-nil list
\* and a nil error.
C12_AllExcluded ==
    /\ ret.returned
    /\ nIssues >= 1
    /\ \A i \in Tasks : scored[i] = NoScore \/ scored[i] < 30
    => ret.list = <<>> /\ ~ret.err /\ ~ret.isNil

C12_Witness ==
    /\ ret.returned
    /\ nIssues = 2
    /\ \E i, j \in Tasks : scored[i] = NoScore /\ scored[j] = 20
    /\ ret.list = <<>>
    /\ ~ret.err

\* C13: the worker posts in enqueue order: the message it is about to post
\* as its k-th post is the k-th message that was sent on notifyCh, and the
\* buffer holds the following ones in the order they were sent.
C13_PostsInEnqueueOrder ==
    variant = "sem" =>
        LET held == IF workerPc = "tick" THEN 1 ELSE 0 IN
        /\ workerPc = "tick" => workerMsg.seq = postCount + 1
        /\ \A k \in 1..Len(notifyCh) : notifyCh[k].seq = postCount + held + k

C13_Witness ==
    /\ variant = "sem"
    /\ nIssues = 2
    /\ workerPc = "tick"
    /\ postCount = 1
    /\ workerMsg.seq = 2
    /\ workerMsg.issue = 1
    /\ posted[2] # <<>>
    /\ notifyCh # <<>>

\* C14: notifyCh is closed only after every task was spawned and has
\* returned, it is closed exactly once in a run, and once it is closed
\* nothing is sent on it and it is not closed again.
C14_CloseAfterTasks ==
    /\ [](variant = "sem" =>
            /\ closes <= 1
            /\ chClosed <=> closes = 1
            /\ chClosed => spawned = nIssues /\ \A i \in Tasks : pc[i] = "done"
            /\ ret.returned /\ nIssues >= 1 => closes = 1)
    /\ [][variant = "sem" /\ chClosed => sent' = sent /\ closes' = closes]_vars

C14_Witness ==
    /\ variant = "sem"
    /\ nIssues = 2
    /\ closes = 1
    /\ chClosed
    /\ ret.returned
    /\ sent >= 3

\* C15: semaphore variant: SelectTopIssues goes past notifyWg.Wait only after
\* the worker exited, and the worker exits only after it tried to post every
\* message ever sent: from then on, and so at return, the post attempts are
\* as many as the sends, each task's messages were attempted once each in
\* the order it emitted them, and nothing is left in the buffer.
C15_ReturnAfterDrain ==
    variant = "sem" /\ nIssues >= 1 =>
        /\ mainPc \in {"aggregate", "fail", "returned"} => workerPc = "exited"
        /\ workerPc = "exited" =>
             /\ chClosed
             /\ postCount = sent
             /\ notifyCh = <<>>
             /\ workerMsg = NoMsg
             /\ \A i \in Tasks : posted[i] = emitted[i]

C15_Witness ==
    /\ variant = "sem"
    /\ nIssues = 2
    /\ ret.returned
    /\ workerPc = "exited"
    /\ sent = 3
    /\ postCount = 3

\* completion notifications the task has emitted, in either form
Completions(i) == Count(emitted[i], "complete") + Count(emitted[i], "excluded")

\* C16: every candidate gets exactly one completion notification, emitted
\* after its retry loop ended and as its last notification, whatever its
\* outcome and whether or not earlier posts failed; it has the excluded form
\* exactly when the candidate's slot is the excluded marker (both variants).
C16_OneCompletion ==
    \A i \in Tasks :
        /\ Completions(i) = IF pc[i] \in {"store", "release", "done"} THEN 1 ELSE 0
        /\ Completions(i) = 1 =>
             emitted[i][Len(emitted[i])] \in {"complete", "excluded"}
        /\ pc[i] = "done" =>
             (Count(emitted[i], "excluded") = 1 <=> IsExcludedMarker(results[i]))

C16_Witness ==
    /\ variant = "errgroup"
    /\ nIssues = 2
    /\ postFailed
    /\ \E i, j \in Tasks :
         /\ pc[i] = "done" /\ emitted[i] = <<"start", "error", "excluded">>
         /\ pc[j] = "done" /\ emitted[j] = <<"start", "complete">>
         /\ results[j].Similarity = 90

\* C17 as stated: a task emits at most one notification over its lifetime
\* and writes exactly one result slot.
C17_AtMostOneNotification ==
    \A i \in Tasks :
        /\ Len(emitted[i]) <= 1
        /\ pc[i] = "done" => Len(writes[i]) = 1

\* the notifications of a finished task in the semaphore variant
EventsOf(i) ==
    IF scored[i] = NoScore THEN <<"error", "excluded">>
    ELSE IF scored[i] < 30 THEN <<"excluded">>
    ELSE <<"complete">>

\* C17 amended: a finished task has emitted its completion notification,
\* preceded by one error notification exactly when all its attempts failed
\* and, in the errgroup variant, by a start notification: one or two events
\* in the semaphore variant, two or three in the errgroup variant; it has
\* written exactly one result slot, its own.
C17_OneToThreeNotifications ==
    \A i \in Tasks :
        /\ Len(emitted[i]) <= IF variant = "sem" THEN 2 ELSE 3
        /\ pc[i] = "done" =>
             /\ emitted[i] = IF variant = "sem" THEN EventsOf(i)
                             ELSE <<"start">> \o EventsOf(i)
             /\ writes[i] = <<i>>
             /\ \A j \in Tasks \ {i} : \A k \in 1..Len(writes[j]) : writes[j][k] # i

C17_Witness ==
    /\ nIssues = 2
    /\ variant = "sem"
    /\ \E i, j \in Tasks :
         /\ pc[i] = "done" /\ emitted[i] = <<"error", "excluded">> /\ writes[i] = <<i>>
         /\ pc[j] = "done" /\ emitted[j] = <<"complete">> /\ writes[j] = <<j>>

\* C18: failed posts change nothing: whatever posts failed, the slot of a
\* finished task is the one its search and scoring outcome decides, the
\* returned list is the aggregation of these slots and the returned error is
\* nil; no message is posted a second time (both variants).
C18_PostFailuresHarmless ==
    /\ \A i \in Tasks :
         /\ pc[i] = "done" => results[i] = SlotOf(i)
         /\ \A f \in {"start", "error", "complete", "excluded"} :
              Count(emitted[i], f) <= 1 /\ Count(posted[i], f) <= 1
         /\ variant = "sem" =>
              /\ Len(posted[i]) <= Len(emitted[i])
              /\ posted[i] = SubSeq(emitted[i], 1, Len(posted[i]))
    /\ postCount <= sent
    /\ ret.returned /\ nIssues >= 1 =>
         /\ ~ret.err
         /\ ret.list = Aggregate([i \in Tasks |-> SlotOf(i)])
         /\ variant = "sem" => postCount = sent

C18_Witness ==
    /\ postFailed
    /\ ret.returned
    /\ nIssues = 2
    /\ ~ret.err
    /\ Len(ret.list) = 2

\* (channel, root timestamp) of a match: the thread it resolves to
Root(m) == <<m.channel, IF m.thread # "" THEN m.thread ELSE m.ts>>

\* number of history lookups among the first p remote calls: the index of the
\* match the p-th call belongs to
MatchOfCall(p) == Cardinality({q \in 1..p : calls[q].op = "history"})

\* the positions in calls of the reply fetches, and the thread each is for
FetchCalls == {p \in 1..Len(calls) : calls[p].op = "replies"}

FetchedThread(p) == <<calls[p].channel, calls[p].ts>>

\* the matches whose history lookup found their message
FoundMatches ==
    {MatchOfCall(p) : p \in {q \in 1..Len(calls) :
                                calls[q].op = "history" /\ calls[q].res = "ok"}}

RECURSIVE RepliesOfCalls(_)
\* the replies of the fetched threads, in the order of the fetches
RepliesOfCalls(p) ==
    IF p = 0 THEN <<>>
    ELSE RepliesOfCalls(p - 1) \o
         (IF calls[p].op = "replies" /\ calls[p].res = "ok"
          THEN Replies(calls[p].channel, calls[p].ts) ELSE <<>>)

\* C19: SearchThreads fetches the replies of a (channel, root) pair at most
\* once, for the first match whose message was found and resolves to it, and
\* for every such pair; the returned list is the replies of the fetched
\* threads, once each, in the order of their first match.
C19_DedupByThread ==
    /\ \A p, q \in FetchCalls : p # q => FetchedThread(p) # FetchedThread(q)
    /\ \A p \in FetchCalls :
         LET k == MatchOfCall(p) IN
         /\ k \in FoundMatches
         /\ FetchedThread(p) = Root(matches[k])
         /\ \A j \in FoundMatches : j < k => Root(matches[j]) # Root(matches[k])
    /\ \A k \in FoundMatches : \E p \in FetchCalls : FetchedThread(p) = Root(matches[k])
    /\ searchRet.returned /\ searchRet.err = "nil" =>
         searchRet.msgs = RepliesOfCalls(Len(calls))

C19_Witness ==
    /\ searchRet.returned
    /\ searchRet.err = "nil"
    /\ Len(matches) = 3
    /\ FoundMatches = {1, 2, 3}
    /\ Root(matches[1]) = Root(matches[3])
    /\ matches[1].ts # matches[3].ts
    /\ Root(matches[1]) # Root(matches[2])
    /\ Cardinality(FetchCalls) = 2
    /\ Len(searchRet.msgs) = 4

\* some remote call of SearchThreads failed
SomeCallFailed == \E p \in 1..Len(calls) : calls[p].res = "error"

\* C20: SearchThreads returns an error exactly when the keyword search, a
\* history lookup or a reply fetch failed, at once and with no messages at
\* all; when every call succeeded it looked up every match, skipped those
\* without a message, and returns a nil error.
C20_FailurePropagates ==
    /\ ~searchRet.returned => ~SomeCallFailed
    /\ searchRet.returned =>
         /\ SomeCallFailed <=> searchRet.err # "nil"
         /\ searchRet.err # "nil" =>
              /\ searchRet.msgs = <<>>
              /\ searchRet.isNil
              /\ calls[Len(calls)].res = "error"
              /\ calls[Len(calls)].op = searchRet.err
         /\ searchRet.err = "nil" =>
              /\ MatchOfCall(Len(calls)) = Len(matches)
              /\ searchRet.msgs = RepliesOfCalls(Len(calls))

C20_Witness ==
    /\ searchRet.returned
    /\ searchRet.err = "replies"
    /\ allThreadMessages # <<>>
    /\ searchRet.msgs = <<>>
    /\ \E p \in 1..Len(calls) : calls[p].op = "history" /\ calls[p].res = "empty"

\* the task is in its retry loop or between the loop and its return
Running(i) == pc[i] = "retry" \/ PastRetry(i)

\* C30: a running task has made at most 3 attempts, each of which either
\* failed in the thread search (and then did not call the scoring oracle) or
\* called the oracle exactly once, so both are called at most 3 times; and a
\* task that obtained a score, whatever its value, is out of the retry loop.
C30_AttemptsBounded ==
    \A i \in Tasks :
        /\ Running(i) =>
             /\ Tries(i) <= 3
             /\ scoreCalls[i] + searchFailed[i] = Tries(i)
             /\ scoreCalls[i] <= 3
        /\ scored[i] # NoScore => pc[i] # "retry"

C30_Witness ==
    \E i \in Tasks :
        /\ PastRetry(i)
        /\ scored[i] = 20
        /\ Tries(i) = 2
        /\ searchFailed[i] = 1
        /\ scoreCalls[i] = 1

\* C25: semaphore variant: whatever the order in which the tasks got their
\* permits, ran and finished, the slot of a task that has stored is the one
\* its own search and scoring outcome decides, written by that task alone, and
\* the returned list is the aggregation of these slots in candidate order: it
\* depends on the outcomes only.
C25_InterleavingIndependent ==
    variant = "sem" =>
        /\ \A i \in Tasks :
             pc[i] \in {"release", "done"} =>
                 results[i] = SlotOf(i) /\ writes[i] = <<i>>
        /\ ret.returned =>
             ret.list = Aggregate([i \in Tasks |-> SlotOf(i)])

\* the second candidate has finished before the first one got its permit
C25_Witness ==
    /\ variant = "sem"
    /\ nIssues = 2
    /\ pc[2] = "done"
    /\ pc[1] = "acquire"
    /\ results[2] = [ID |-> 2, Similarity |-> 90]
    /\ results[1] = EmptyResult

\* tasks of the errgroup variant inside retry.Retry: searching, scoring or
\* waiting for the next attempt
Evaluating == {i \in Tasks : pc[i] = "retry"}

\* C29: errgroup variant: at no point are more than 5 evaluations in flight,
\* for any number of candidates.
C29_ErrgroupAtMostFive ==
    variant = "errgroup" => Cardinality(Evaluating) <= maxConcurrency

\* C22: without thread-search credentials SearchThreads makes no remote call
\* and returns an empty result and a nil error, so that no attempt fails or is
\* retried because of it and every candidate is scored with an empty context.
C22_DisabledWithoutToken ==
    ~slackToken =>
        /\ calls = <<>>
        /\ searchRet.returned => searchRet.err = "nil" /\ searchRet.msgs = <<>>

\* C21: CLI, no Slack API token: every searchThreads call returns an empty
\* (nil) result and no error and makes no remote call, so the only remote
\* calls are the similarity requests, one per candidate in turn, each with an
\* empty thread context, and every kept issue has an empty thread text.
C21_CliSearchDisabled ==
    ~cliToken =>
        /\ \A p \in 1..Len(cliCalls) :
             /\ cliCalls[p].op = "similarity"
             /\ cliCalls[p].issue = p
             /\ cliCalls[p].context = ""
        /\ cliThreads.called =>
             cliThreads.n = 0 /\ ~cliThreads.err /\ cliThreads.isNil
        /\ \A k \in 1..Len(cliConvIssues) : cliConvIssues[k].SlackThread = ""
        /\ cliRet.returned /\ ~cliRet.err => Len(cliCalls) = Len(cliScores)

C21_Witness ==
    /\ ~cliToken
    /\ cliRet.returned
    /\ ~cliRet.err
    /\ Len(cliScores) = 2
    /\ Len(cliCalls) = 2
    /\ Len(cliRet.list) = 2
    /\ cliThreads.called

\* the issues whose similarity is at least 0.5
Qualifying == {i \in 1..Len(cliScores) : cliScores[i] >= 50}

C23_NoAtSign ==
    fmtPc = "done" => \A k \in 1..Len(fmtOut) : fmtOut[k] # "@"

\* number of times handleMention called h.postError
PostErrorCalls == Cardinality({p \in 1..Len(hdlLog) : hdlLog[p].op = "postError"})

\* the p-th entry is a tracker search that succeeded
Fetched(p) == hdlLog[p].op = "fetch" /\ hdlLog[p].ok

\* the mention got as far as the loop that posts the selected issues
ResultListPosted ==
    \E p \in 1..Len(hdlLog) : hdlLog[p].op = "summary" /\ hdlLog[p].ok

\* C27: handleMention makes at most 3 attempts; SelectTopIssues and
\* GenerateSummary are called only after an attempt whose query generation,
\* query post and tracker search all succeeded, that attempt being the last
\* one made, and SelectTopIssues gets the issues that attempt fetched; when all
\* 3 attempts failed neither is called and postError is called exactly once.
C27_QueryFailureAborts ==
    /\ hdlTries <= 3
    /\ \A p \in 1..Len(hdlLog) :
         hdlLog[p].op \in {"select", "summary"} =>
             \E q \in 3..(p - 1) :
                 /\ Fetched(q)
                 /\ hdlLog[q - 1] = HdlEntry("query", hdlLog[q].arg, TRUE)
                 /\ hdlLog[q - 2] = HdlEntry("generate", hdlLog[q].arg, TRUE)
                 /\ hdlLog[q].arg = hdlTries
                 /\ \A r \in (q + 1)..p :
                      hdlLog[r].op \notin {"generate", "query", "fetch"}
                 /\ hdlLog[p].op = "select" => hdlLog[p].arg = hdlLog[q].arg
    /\ hdlPc = "returned" /\ hdlTries = 3 /\ (\A p \in 1..Len(hdlLog) : ~Fetched(p)) =>
         /\ \A p \in 1..Len(hdlLog) : hdlLog[p].op \notin {"select", "summary"}
         /\ PostErrorCalls = 1
         /\ hdlLog[Len(hdlLog)].op = "postError"

C27_Witness ==
    /\ hdlPc = "returned"
    /\ hdlTries = 3
    /\ \A p \in 1..Len(hdlLog) : ~Fetched(p)
    /\ PostErrorCalls = 1
    /\ \E p, q, r \in 1..Len(hdlLog) :
         /\ hdlLog[p] = HdlEntry("generate", 1, FALSE)
         /\ hdlLog[q] = HdlEntry("query", 2, FALSE)
         /\ hdlLog[r] = HdlEntry("fetch", 3, FALSE)

\* C28: a handled mention ends either with the result list posted and no
\* failure message, or with exactly one failure message posted by postError
\* and no result list.
C28_OneOutcome ==
    hdlPc = "returned" =>
        \/ ResultListPosted /\ PostErrorCalls = 0
        \/ ~ResultListPosted /\ PostErrorCalls = 1

\* the last notification the task emitted
LastEvent(i) == emitted[i][Len(emitted[i])]

C38_NoErrorReturn ==
    variant = "sem" =>
        /\ ~groupErr
        /\ mainPc # "fail"
        /\ \A i \in Tasks : pc[i] = "done" => writes[i] = <<i>>
        /\ ret.returned => ~ret.err /\ ~ret.isNil

C38_Witness ==
    /\ variant = "sem"
    /\ nIssues = 2
    /\ ret.returned
    /\ ~ret.err
    /\ scored[1] = NoScore
    /\ scored[2] = NoScore
    /\ postFailed

\* C39: semaphore variant: per candidate the steps come in the order permit,
\* attempts, error notification (only after 3 failed attempts), completion
\* notification, slot write, release: at each position exactly the earlier
\* steps have happened.  The worker posts a candidate's notifications in the
\* order they were enqueued, so the error one before the completion one, and
\* when g.Wait has returned every candidate's notifications are enqueued.
C39_StepOrder ==
    variant = "sem" =>
        /\ \A i \in Tasks :
             LET failed == retryErr[i] # "nil" IN
             /\ pc[i] \in {"unspawned", "acquire"} =>
                  Tries(i) = 0 /\ emitted[i] = <<>> /\ writes[i] = <<>>
             /\ pc[i] = "retry" =>
                  Tries(i) < 3 /\ emitted[i] = <<>> /\ writes[i] = <<>>
             /\ pc[i] = "notifyError" =>
                  Tries(i) = 3 /\ failed /\ emitted[i] = <<>> /\ writes[i] = <<>>
             /\ pc[i] = "notifyComplete" =>
                  /\ Tries(i) >= 1
                  /\ emitted[i] = IF failed THEN <<"error">> ELSE <<>>
                  /\ writes[i] = <<>>
             /\ pc[i] = "store" =>
                  /\ Len(emitted[i]) = IF failed THEN 2 ELSE 1
                  /\ failed => emitted[i][1] = "error"
                  /\ LastEvent(i) \in {"complete", "excluded"}
                  /\ writes[i] = <<>>
             /\ pc[i] = "release" => Completions(i) = 1 /\ writes[i] = <<i>>
             /\ pc[i] \in {"retry", "notifyError", "notifyComplete", "store",
                           "release"} => sem >= 1
             /\ posted[i] = SubSeq(emitted[i], 1, Len(posted[i]))
        /\ mainPc \in {"notifyWait", "aggregate", "returned"} =>
             \A i \in Tasks :
                /\ Completions(i) = 1
                /\ Len(emitted[i]) = IF scored[i] = NoScore THEN 2 ELSE 1
                /\ writes[i] = <<i>>

C39_Witness ==
    /\ variant = "sem"
    /\ nIssues = 2
    /\ mainPc = "returned"
    /\ posted[1] = <<"error", "excluded">>
    /\ posted[2] = <<"complete">>

WgAllAttemptsFail(i) == wgPlan[i].fails >= RetryCount

\* the processResults of the issues, in the order of the issues
WgInIndexOrder ==
    [i \in WgTasks |-> [result |-> wgResult[i], index |-> i, err |-> wgErr[i]]]

\* C36: the wait-group variant returns an error exactly when every issue
\* failed on all its retries; one issue evaluated without error, even if it
\* is excluded for its score, makes the run return a nil error.
C36_ErrorIffAllFailed ==
    wgRet.returned /\ wgIssues > 0
        => (wgRet.err <=> \A i \in WgTasks : WgAllAttemptsFail(i))

\* C37: with the outcomes of the remote calls fixed, the wait-group variant
\* returns the same list whatever the order in which the goroutines finish,
\* namely the one it returns when they finish in the order of the issues.
C37_CompletionOrderIrrelevant ==
    wgRet.returned /\ wgIssues > 0
        => /\ wgRet.err = WgCollect(WgInIndexOrder).err
           /\ wgRet.list = WgCollect(WgInIndexOrder).list

\* the thread keys of the reply fetches made so far by the running call
KeysOfCalls ==
    {ThreadKey(calls[p].channel, calls[p].ts) :
        p \in {q \in 1..Len(calls) : calls[q].op = "replies"}}

C31_MinSpacing == tkGap = NoPost \/ tkGap >= TickPeriod

Contains(s, substr) == StringsIndex(s, substr) # NotFound

\* C40: the text ConvertAllMentionsToSafe returns holds no "@" and none of
\* the tokens <!here>, <!channel>, <!everyone>, whatever the lookups answer.
C40_OutputSafe ==
    cvPc = "done"
        => /\ ~Contains(cvResult, <<"@">>)
           /\ ~Contains(cvResult, HereToken)
           /\ ~Contains(cvResult, ChannelToken)
           /\ ~Contains(cvResult, EveryoneToken)

====
